---- MODULE Spec2Model ----
(***************************************************************************)
(* DRC-SA calculator: policy loader, classification / risk-weight / LGD    *)
(* resolution and the scenario calculator.                                 *)
(*                                                                         *)
(* Strings are sequences of symbols of an alphabet; the symbols "/", ":",  *)
(* " ", "-", "#" and the quote are the characters the code tests for, the  *)
(* other symbols stand for '/'-free, ':'-free runs of characters.          *)
(* Numbers are integers: the model's policies only hold integral weights,  *)
(* so every product the calculator forms is exact.                         *)
(***************************************************************************)
EXTENDS Integers, Sequences, FiniteSets, TLC

VARIABLES
    store,        \* backing store: policy name -> directory of table files
    pc,           \* position of the call in progress
    call,         \* the call in progress: operation and policy name
    load_data,    \* PolicyDataLoader.load: `data`, the tables validated so far
    load_hashes,  \* PolicyDataLoader.load: `hashes`, computed so far
    loaded,       \* outcome of the last load (PolicyData or error)
    edits,        \* external edits of the store made so far
    request,      \* input of the engine call (exposure, path or request)
    response,     \* outcome of the engine call
    routes,       \* APIApplication: `_routes`, the routes registered so far
    _storage,     \* InMemoryScenarioStore: `_storage`, the entries of the dict
    threads,      \* the requests on the scenario store, one per thread
    log           \* the calls made on the scenario store, in call order

vars == <<store, pc, call, load_data, load_hashes, loaded, edits, request,
          response, routes, _storage, threads, log>>

----------------------------------------------------------------------------
(* Python values *)

NoneV == [t |-> "none"]
Int_(n) == [t |-> "int", v |-> n]
Float_(n) == [t |-> "float", v |-> n]
Bool_(b) == [t |-> "bool", b |-> b]
Str(s) == [t |-> "str", s |-> s]
Map(m) == [t |-> "map", m |-> m]
List(l) == [t |-> "list", items |-> l]

\* a one-symbol string
S(a) == Str(<<a>>)

\* bool(value)
Truthy(x) ==
    CASE x.t = "none" -> FALSE
      [] x.t = "int" -> x.v # 0
      [] x.t = "float" -> x.v # 0
      [] x.t = "bool" -> x.b
      [] x.t = "str" -> x.s # <<>>
      [] x.t = "map" -> x.m # <<>>
      [] x.t = "list" -> x.items # <<>>

\* isinstance(value, int | float); bool is a subclass of int
IsNumber(x) == x.t \in {"int", "float", "bool"}

IsMapping(x) == x.t = "map"

IsStr(x) == x.t = "str"

\* float(value) of a number
float(x) == IF x.t = "bool" THEN (IF x.b THEN 1 ELSE 0) ELSE x.v

\* a or b
Or(a, b) == IF Truthy(a) THEN a ELSE b

----------------------------------------------------------------------------
(* dict: insertion-ordered sequence of <<key, value>>, keys are strings *)

Keys(d) == {d[i][1] : i \in DOMAIN d}

\* key in d
In(k, d) == \E i \in DOMAIN d : d[i][1] = k

\* d[key]
Item(d, k) == d[CHOOSE i \in DOMAIN d : d[i][1] = k][2]

\* d.get(key)
Get(d, k) == IF In(k, d) THEN Item(d, k) ELSE NoneV

\* d.get(key, {})
GetOrEmpty(d, k) == IF In(k, d) THEN Item(d, k) ELSE Map(<<>>)

\* d[key] = value
SetItem(d, k, v) ==
    IF In(k, d)
    THEN [i \in DOMAIN d |-> IF d[i][1] = k THEN <<k, v>> ELSE d[i]]
    ELSE Append(d, <<k, v>>)

----------------------------------------------------------------------------
(* str methods *)

RECURSIVE split(_, _)
\* s.split(sep) for a one-symbol separator: the list of the runs between
\* separators, empty runs included
split(s, sep) ==
    IF \A i \in DOMAIN s : s[i] # sep
    THEN <<s>>
    ELSE LET i == CHOOSE j \in DOMAIN s :
                      s[j] = sep /\ \A k \in 1..(j - 1) : s[k] # sep
         IN <<SubSeq(s, 1, i - 1)>> \o split(SubSeq(s, i + 1, Len(s)), sep)

RECURSIVE join(_, _)
\* sep.join(parts)
join(sep, parts) ==
    IF parts = <<>> THEN <<>>
    ELSE IF Len(parts) = 1 THEN parts[1]
    ELSE parts[1] \o <<sep>> \o join(sep, Tail(parts))

\* [x for x in seq if keep(x)]
Filter(seq, keep(_)) == SelectSeq(seq, keep)

----------------------------------------------------------------------------
(* outcomes of a call: a returned value or a raised exception *)

Return(v) == [ok |-> TRUE, value |-> v]

Raise(kind, text, args) ==
    [ok |-> FALSE, error |-> kind, message |-> [text |-> text, args |-> args]]

\* the statements after a call: they run on the value the call returned, and
\* an exception the call raised propagates instead
Try(outcome, rest(_)) == IF outcome.ok THEN rest(outcome.value) ELSE outcome

\* dictionary keys the code names
K(a) == <<a>>

----------------------------------------------------------------------------
(* DRCSACalculationEngine *)

\* product mapping applies: product_type set and a field still unset
ProductMap(policy, exposure) ==
    IF Truthy(exposure.product_type)
       /\ (~Truthy(exposure.exposure_class) \/ ~Truthy(exposure.quality_step))
    THEN LET mapping == GetOrEmpty(policy.mappings, K("product_mappings"))
         IN Get(mapping.m, exposure.product_type.s)
    ELSE NoneV

\* ProductFill with the product mapping overwriting the explicit fields
ProductFill_overwrite(policy, exposure) ==
    LET product_map == ProductMap(policy, exposure)
    IN IF Truthy(product_map)
       THEN [exposure_class |-> Get(product_map.m, K("exposure")),
             quality |-> Get(product_map.m, K("quality_step"))]
       ELSE [exposure_class |-> exposure.exposure_class,
             quality |-> exposure.quality_step]

\* exposure_class and quality after the product mapping was applied
ProductFill(policy, exposure) ==
    LET product_map == ProductMap(policy, exposure)
    IN IF Truthy(product_map)
       THEN [exposure_class |->
                 Or(exposure.exposure_class, Get(product_map.m, K("exposure"))),
             quality |->
                 Or(exposure.quality_step, Get(product_map.m, K("quality_step")))]
       ELSE [exposure_class |-> exposure.exposure_class,
             quality |-> exposure.quality_step]

\* GradeFill with the grade consulted whether or not quality is set
GradeFill_always(policy, exposure, quality) ==
    IF Truthy(exposure.counterparty_grade)
    THEN LET grade_mapping ==
                 GetOrEmpty(policy.mappings, K("counterparty_grades"))
         IN Get(grade_mapping.m, exposure.counterparty_grade.s)
    ELSE quality

\* quality after the counterparty grade was applied
GradeFill(policy, exposure, quality) ==
    IF Truthy(exposure.counterparty_grade) /\ ~Truthy(quality)
    THEN LET grade_mapping ==
                 GetOrEmpty(policy.mappings, K("counterparty_grades"))
         IN Get(grade_mapping.m, exposure.counterparty_grade.s)
    ELSE quality

NonEmpty(segment) == segment # <<>>

\* ClassificationPath with the quality step taken as one segment
ClassificationPath_no_split(exposure, exposure_class, quality) ==
    IF ~Truthy(exposure_class)
    THEN Raise("RiskWeightResolutionError",
               "Exposure {trade_id} missing exposure_class and no mapping available",
               <<exposure.trade_id>>)
    ELSE IF ~Truthy(quality)
    THEN Raise("RiskWeightResolutionError",
               "Exposure {trade_id} missing quality_step for class {exposure_class}",
               <<exposure.trade_id, exposure_class.s>>)
    ELSE Return(<<exposure_class.s, quality.s>>)

\* ClassificationPath with the quality_step check first
ClassificationPath_quality_first(exposure, exposure_class, quality) ==
    IF ~Truthy(quality)
    THEN Raise("RiskWeightResolutionError",
               "Exposure {trade_id} missing quality_step for class {exposure_class}",
               <<exposure.trade_id,
                 IF IsStr(exposure_class) THEN exposure_class.s ELSE <<>> >>)
    ELSE IF ~Truthy(exposure_class)
    THEN Raise("RiskWeightResolutionError",
               "Exposure {trade_id} missing exposure_class and no mapping available",
               <<exposure.trade_id>>)
    ELSE Return(<<exposure_class.s>>
                \o SelectSeq(split(quality.s, "/"), LAMBDA x : x # <<>>))

\* ClassificationPath with the empty segments of the quality step kept
ClassificationPath_keep_empty(exposure, exposure_class, quality) ==
    IF ~Truthy(exposure_class)
    THEN Raise("RiskWeightResolutionError",
               "Exposure {trade_id} missing exposure_class and no mapping available",
               <<exposure.trade_id>>)
    ELSE IF ~Truthy(quality)
    THEN Raise("RiskWeightResolutionError",
               "Exposure {trade_id} missing quality_step for class {exposure_class}",
               <<exposure.trade_id, exposure_class.s>>)
    ELSE Return(<<exposure_class.s>> \o split(quality.s, "/"))

\* the two checks and the construction of the path
ClassificationPath(exposure, exposure_class, quality) ==
    IF ~Truthy(exposure_class)
    THEN Raise("RiskWeightResolutionError",
               "Exposure {trade_id} missing exposure_class and no mapping available",
               <<exposure.trade_id>>)
    ELSE IF ~Truthy(quality)
    THEN Raise("RiskWeightResolutionError",
               "Exposure {trade_id} missing quality_step for class {exposure_class}",
               <<exposure.trade_id, exposure_class.s>>)
    ELSE Return(<<exposure_class.s>>
                \o Filter(split(quality.s, "/"), NonEmpty))

_resolve_classification(policy, exposure) ==
    LET filled == ProductFill(policy, exposure)
        quality == GradeFill(policy, exposure, filled.quality)
    IN ClassificationPath(exposure, filled.exposure_class, quality)

RECURSIVE RiskWeightWalk_no_wrap(_, _, _)
\* RiskWeightWalk that ends at the first leaf it meets, whatever follows
RiskWeightWalk_no_wrap(node, classification_path, i) ==
    IF i > Len(classification_path)
    THEN [present |-> TRUE, node |-> node]
    ELSE LET segment == classification_path[i]
         IN IF ~In(segment, node)
            THEN [present |-> FALSE, node |-> node]
            ELSE LET next_node == Item(node, segment)
                 IN IF IsMapping(next_node)
                    THEN RiskWeightWalk_no_wrap(next_node.m,
                                                classification_path, i + 1)
                    ELSE [present |-> TRUE,
                          node |-> << <<classification_path[
                                            Len(classification_path)],
                                        next_node>> >>]

RECURSIVE RiskWeightWalk(_, _, _)
\* the loop over the segments from position i on; the final node, or
\* absent when a segment is not in the current node
RiskWeightWalk(node, classification_path, i) ==
    IF i > Len(classification_path)
    THEN [present |-> TRUE, node |-> node]
    ELSE LET segment == classification_path[i]
         IN IF ~In(segment, node)
            THEN [present |-> FALSE, node |-> node]
            ELSE LET next_node == Item(node, segment)
                 IN RiskWeightWalk(IF IsMapping(next_node)
                                   THEN next_node.m
                                   ELSE << <<segment, next_node>> >>,
                                   classification_path, i + 1)

\* RiskWeightLeaf accepting a float only
RiskWeightLeaf_float_only(node, classification_path) ==
    LET last_segment == classification_path[Len(classification_path)]
        value == Get(node, last_segment)
    IN IF value.t # "float"
       THEN Raise("RiskWeightResolutionError",
                  "Classification path {path} resolved to non-numeric value",
                  <<join("/", classification_path)>>)
       ELSE Return(float(value))

\* the lookup of the last segment in the final node
RiskWeightLeaf(node, classification_path) ==
    LET last_segment == classification_path[Len(classification_path)]
        value == Get(node, last_segment)
    IN IF ~IsNumber(value)
       THEN Raise("RiskWeightResolutionError",
                  "Classification path {path} resolved to non-numeric value",
                  <<join("/", classification_path)>>)
       ELSE Return(float(value))

\* _risk_weight_from_policy with a weight of 0 for a path that is not in
\* the policy
_risk_weight_from_policy_default(policy, classification_path) ==
    LET walk == RiskWeightWalk(Item(policy.risk_weights, K("exposures")).m,
                               classification_path, 1)
    IN IF ~walk.present
       THEN Return(0)
       ELSE RiskWeightLeaf(walk.node, classification_path)

_risk_weight_from_policy(policy, classification_path) ==
    LET walk == RiskWeightWalk(Item(policy.risk_weights, K("exposures")).m,
                               classification_path, 1)
    IN IF ~walk.present
       THEN Raise("RiskWeightResolutionError",
                  "Classification path {path} not present in policy",
                  <<join("/", classification_path)>>)
       ELSE RiskWeightLeaf(walk.node, classification_path)

\* float(x) as _resolve_lgd calls it: a TypeError on a mapping
FloatOf(x) ==
    IF IsNumber(x) THEN Return(Float_(float(x)))
    ELSE Raise("TypeError", "float() argument must be a string or a real number",
               <<>>)

RECURSIVE LgdWalk_last_match(_, _, _)
\* LgdWalk that goes on after a number and returns the last one it met
LgdWalk_last_match(node, quality_path, i) ==
    IF i > Len(quality_path) THEN NoneV
    ELSE LET segment == quality_path[i]
         IN IF IsMapping(node) /\ In(segment, node.m)
            THEN LET candidate == Item(node.m, segment)
                     later == LgdWalk_last_match(
                                  IF IsNumber(candidate) THEN node
                                  ELSE candidate, quality_path, i + 1)
                 IN IF IsNumber(candidate) /\ later = NoneV
                    THEN Float_(float(candidate))
                    ELSE later
            ELSE LgdWalk_last_match(node, quality_path, i + 1)

RECURSIVE LgdWalk(_, _, _)
\* the loop over the quality_step segments from position i on, node being
\* any value; NoneV when the loop ends without a number
LgdWalk(node, quality_path, i) ==
    IF i > Len(quality_path) THEN NoneV
    ELSE LET segment == quality_path[i]
         IN IF IsMapping(node) /\ In(segment, node.m)
            THEN LET candidate == Item(node.m, segment)
                 IN IF IsNumber(candidate)
                    THEN Float_(float(candidate))
                    ELSE LgdWalk(candidate, quality_path, i + 1)
            ELSE LgdWalk(node, quality_path, i + 1)

\* LgdFromClass with the walk of the quality step before the direct key
LgdFromClass_walk_first(lgd_table, exposure) ==
    LET exposure_key == Or(exposure.exposure_class, Str(<<>>))
        lgd_grade == exposure.lgd_grade
        node == IF Truthy(exposure_key)
                THEN Get(lgd_table, exposure_key.s) ELSE NoneV
        walked == LgdWalk(node,
                          IF Truthy(exposure.quality_step)
                          THEN split(exposure.quality_step.s, "/")
                          ELSE <<>>, 1)
    IN IF Truthy(exposure_key) /\ IsMapping(node)
       THEN IF walked # NoneV THEN Return(walked)
            ELSE IF Truthy(lgd_grade) /\ In(lgd_grade.s, node.m)
            THEN FloatOf(Item(node.m, lgd_grade.s))
            ELSE Return(NoneV)
       ELSE Return(NoneV)

\* the lookup under the exposure's own class
LgdFromClass(lgd_table, exposure) ==
    LET exposure_key == Or(exposure.exposure_class, Str(<<>>))
        lgd_grade == exposure.lgd_grade
        node == IF Truthy(exposure_key)
                THEN Get(lgd_table, exposure_key.s) ELSE NoneV
    IN IF Truthy(exposure_key) /\ IsMapping(node)
       THEN IF Truthy(lgd_grade) /\ In(lgd_grade.s, node.m)
            THEN FloatOf(Item(node.m, lgd_grade.s))
            ELSE Return(LgdWalk(node,
                                IF Truthy(exposure.quality_step)
                                THEN split(exposure.quality_step.s, "/")
                                ELSE <<>>, 1))
       ELSE Return(NoneV)

\* the lookup of lgd_grade at the top level of the table
LgdFromGrade(lgd_table, lgd_grade) ==
    IF Truthy(lgd_grade) /\ In(lgd_grade.s, lgd_table)
       /\ IsNumber(Item(lgd_table, lgd_grade.s))
    THEN Float_(float(Item(lgd_table, lgd_grade.s)))
    ELSE NoneV

_resolve_lgd(policy, exposure) ==
    IF ~Truthy(exposure.lgd_grade) /\ ~Truthy(exposure.exposure_class)
    THEN Return(NoneV)
    ELSE LET lgd_table == GetOrEmpty(policy.lgd_tables, K("lgd")).m
         IN Try(LgdFromClass(lgd_table, exposure),
                LAMBDA byClass :
                    IF byClass # NoneV THEN Return(byClass)
                    ELSE Return(LgdFromGrade(lgd_table, exposure.lgd_grade)))

\* CapitalCharge with `if lgd:` for `if lgd is not None:`
CapitalCharge_if_lgd(notional, risk_weight, lgd) ==
    IF Truthy(lgd)
    THEN (notional * risk_weight) * lgd.v
    ELSE notional * risk_weight

\* capital_charge = notional * risk_weight, times lgd when one resolved
CapitalCharge(notional, risk_weight, lgd) ==
    IF lgd # NoneV
    THEN (notional * risk_weight) * lgd.v
    ELSE notional * risk_weight

_compute_exposure(policy, exposure) ==
    Try(_resolve_classification(policy, exposure),
        LAMBDA classification_path :
    Try(_risk_weight_from_policy(policy, classification_path),
        LAMBDA risk_weight :
    Try(_resolve_lgd(policy, exposure),
        LAMBDA lgd :
    Return([trade_id |-> exposure.trade_id,
            notional |-> exposure.notional,
            risk_weight |-> risk_weight,
            capital_charge |->
                CapitalCharge(exposure.notional, risk_weight, lgd),
            classification_path |-> classification_path,
            lgd |-> lgd,
            metadata |-> exposure.metadata]))))

----------------------------------------------------------------------------
(* more str methods, used by the YAML loader *)

IsSpace(c) == c \in {" ", "\t"}

RECURSIVE lstrip(_)
\* s.lstrip()
lstrip(s) == IF s # <<>> /\ IsSpace(s[1]) THEN lstrip(Tail(s)) ELSE s

RECURSIVE rstrip(_)
\* s.rstrip()
rstrip(s) ==
    IF s # <<>> /\ IsSpace(s[Len(s)]) THEN rstrip(SubSeq(s, 1, Len(s) - 1))
    ELSE s

\* s.strip()
strip(s) == lstrip(rstrip(s))

RECURSIVE lstrip_spaces(_)
\* s.lstrip(" ")
lstrip_spaces(s) ==
    IF s # <<>> /\ s[1] = " " THEN lstrip_spaces(Tail(s)) ELSE s

\* s.startswith(prefix)
startswith(s, prefix) ==
    Len(s) >= Len(prefix) /\ SubSeq(s, 1, Len(prefix)) = prefix

\* s.endswith(suffix)
endswith(s, suffix) ==
    Len(s) >= Len(suffix)
    /\ SubSeq(s, Len(s) - Len(suffix) + 1, Len(s)) = suffix

\* s.partition(sep) for a one-symbol separator: (head, sep or "", tail)
partition(s, sep) ==
    IF \A i \in DOMAIN s : s[i] # sep
    THEN [head |-> s, sep |-> <<>>, tail |-> <<>>]
    ELSE LET i == CHOOSE j \in DOMAIN s :
                      s[j] = sep /\ \A k \in 1..(j - 1) : s[k] # sep
         IN [head |-> SubSeq(s, 1, i - 1), sep |-> <<sep>>,
             tail |-> SubSeq(s, i + 1, Len(s))]

\* s.lower(): the symbols that stand for words with capitals
lower(s) ==
    [i \in DOMAIN s |->
        CASE s[i] = "True" -> "true"
          [] s[i] = "TRUE" -> "true"
          [] s[i] = "False" -> "false"
          [] OTHER -> s[i]]

Digit == {"0", "1", "2", "3", "4", "5", "6", "7", "8", "9"}

DigitValue(c) == CHOOSE d \in 0..9 : ToString(d) = c

IsDigits(s) == s # <<>> /\ \A i \in DOMAIN s : s[i] \in Digit

RECURSIVE DigitsValue(_)
DigitsValue(s) ==
    IF s = <<>> THEN 0
    ELSE 10 * DigitsValue(SubSeq(s, 1, Len(s) - 1)) + DigitValue(s[Len(s)])

\* int(value) succeeds: an optional sign and decimal digits
IsIntLiteral(s) ==
    \/ IsDigits(s)
    \/ s # <<>> /\ s[1] \in {"-", "+"} /\ IsDigits(Tail(s))

IntLiteralValue(s) ==
    IF s[1] = "-" THEN 0 - DigitsValue(Tail(s))
    ELSE IF s[1] = "+" THEN DigitsValue(Tail(s))
    ELSE DigitsValue(s)

\* float(value) succeeds, for the literals of the model: digits, a point and
\* a fraction of zeros (the model's numbers are integers)
IsFloatLiteral(s) ==
    LET part == partition(s, ".")
    IN /\ part.sep # <<>>
       /\ IsIntLiteral(part.head)
       /\ part.tail # <<>>
       /\ \A i \in DOMAIN part.tail : part.tail[i] = "0"

FloatLiteralValue(s) == IntLiteralValue(partition(s, ".").head)

----------------------------------------------------------------------------
(* yaml: the loader of the repository *)

ValueError(text) == Raise("ValueError", text, <<>>)

_parse_scalar(value) ==
    IF lower(value) \in {<<"true">>, <<"false">>}
    THEN Bool_(lower(value) = <<"true">>)
    ELSE IF IsIntLiteral(value) THEN Int_(IntLiteralValue(value))
    ELSE IF IsFloatLiteral(value) THEN Float_(FloatLiteralValue(value))
    ELSE IF startswith(value, <<"\"">>) /\ endswith(value, <<"\"">>)
    THEN Str(SubSeq(value, 2, Len(value) - 1))
    ELSE Str(value)

\* len(line) - len(line.lstrip(" "))
IndentOf(line) == Len(line) - Len(lstrip_spaces(line))

RECURSIVE _parse_block(_, _, _)
RECURSIVE BlockLoop(_, _, _, _)
RECURSIVE SequenceLoop(_, _, _, _)

\* the inner while loop of _parse_block that reads the items of a sequence;
\* index counts from 1
SequenceLoop(lines, index, indent, items) ==
    IF index > Len(lines) THEN Return(<<items, index>>)
    ELSE LET line == lines[index]
             current_indent == IndentOf(line)
         IN IF current_indent < indent + 2 THEN Return(<<items, index>>)
            ELSE IF current_indent > indent + 2
            THEN ValueError("Invalid indentation in YAML sequence")
            ELSE LET stripped_item ==
                         strip(SubSeq(strip(line), 3, Len(strip(line))))
                 IN IF stripped_item # <<>>
                    THEN SequenceLoop(lines, index + 1, indent,
                             Append(items, _parse_scalar(stripped_item)))
                    ELSE LET nested ==
                                 _parse_block(lines, index + 1, indent + 4)
                         IN IF ~nested.ok THEN nested
                            ELSE SequenceLoop(lines, nested.value[2], indent,
                                     Append(items, Map(nested.value[1])))

\* the outer while loop of _parse_block
BlockLoop(lines, index, indent, result) ==
    IF index > Len(lines) THEN Return(<<result, index>>)
    ELSE LET line == lines[index]
             current_indent == IndentOf(line)
         IN IF current_indent < indent THEN Return(<<result, index>>)
            ELSE IF current_indent > indent
            THEN ValueError("Invalid indentation in YAML input")
            ELSE LET part == partition(strip(line), ":")
                     key == part.head
                     value == strip(part.tail)
                 IN IF part.sep = <<>>
                    THEN ValueError("Missing ':' in YAML line")
                    ELSE IF value # <<>>
                    THEN BlockLoop(lines, index + 1, indent,
                             SetItem(result, key, _parse_scalar(value)))
                    ELSE IF index + 1 <= Len(lines)
                            /\ startswith(lstrip(lines[index + 1]), <<"-", " ">>)
                    THEN LET items ==
                                 SequenceLoop(lines, index + 1, indent, <<>>)
                         IN IF ~items.ok THEN items
                            ELSE BlockLoop(lines, items.value[2], indent,
                                     SetItem(result, key, List(items.value[1])))
                    ELSE LET nested ==
                                 _parse_block(lines, index + 1, indent + 2)
                         IN IF ~nested.ok THEN nested
                            ELSE BlockLoop(lines, nested.value[2], indent,
                                     SetItem(result, key, Map(nested.value[1])))

_parse_block(lines, start, indent) == BlockLoop(lines, start, indent, <<>>)

\* the lines safe_load keeps: not blank, not a comment; trailing space removed
KeptLine(line) ==
    strip(line) # <<>> /\ ~startswith(lstrip(line), <<"#">>)

safe_load(text) ==
    LET kept == SelectSeq(text, KeptLine)
        lines == [i \in DOMAIN kept |-> rstrip(kept[i])]
    IN Try(_parse_block(lines, 1, 0),
           LAMBDA parsed :
               IF parsed[2] # Len(lines) + 1
               THEN ValueError("Unexpected trailing lines in YAML input")
               ELSE Return(Map(parsed[1])))

----------------------------------------------------------------------------
(* order of strings: sorted() compares strings symbol by symbol *)

\* the symbols of the model in ascending order
Alphabet ==
    <<"\t", " ", "\"", "#", "+", "-", ".", "/",
      "0", "1", "2", "3", "4", "5", "6", "7", "8", "9", ":",
      "AA", "BBB", "BCBS_MAR", "C", "False", "T1", "T2", "TRUE", "True", "USD",
      "a", "b", "bank", "bond", "cds", "corp", "counterparty_grades", "credit",
      "desk", "draft", "eligible_instruments", "exposure", "exposures",
      "false", "fin", "fx", "hedges", "hedging_rules", "high", "ig", "lgd",
      "lgd_tables", "loan", "mappings", "offset", "policy", "product_mappings",
      "prop", "quality_step", "risk_weights", "secured", "senior", "sov",
      "sub", "true", "unsecured", "v1", "v2", "version", "x">>

Ord(c) == CHOOSE i \in DOMAIN Alphabet : Alphabet[i] = c

RECURSIVE StrLess(_, _)
\* a < b for strings
StrLess(a, b) ==
    IF b = <<>> THEN FALSE
    ELSE IF a = <<>> THEN TRUE
    ELSE IF a[1] # b[1] THEN Ord(a[1]) < Ord(b[1])
    ELSE StrLess(Tail(a), Tail(b))

RECURSIVE sorted(_)
\* sorted(keys) of a set of strings
sorted(keys) ==
    IF keys = {} THEN <<>>
    ELSE LET least == CHOOSE k \in keys :
                          \A other \in keys \ {k} : StrLess(k, other)
         IN <<least>> \o sorted(keys \ {least})

----------------------------------------------------------------------------
(* policy.py: canonical form and hash *)

\* _sort_structure sorting the keys of the outermost mapping only
_sort_structure_shallow(data) ==
    IF IsMapping(data)
    THEN LET order == sorted(Keys(data.m))
         IN Map([i \in DOMAIN order |-> <<order[i], Item(data.m, order[i])>>])
    ELSE data

RECURSIVE _sort_structure(_)
_sort_structure(data) ==
    IF IsMapping(data)
    THEN LET order == sorted(Keys(data.m))
         IN Map([i \in DOMAIN order |->
                    <<order[i], _sort_structure(Item(data.m, order[i]))>>])
    ELSE IF data.t = "list"
    THEN List([i \in DOMAIN data.items |-> _sort_structure(data.items[i])])
    ELSE data

RECURSIVE json_dumps(_)
RECURSIVE json_items(_, _)
\* the elements of a list or the members of a dict from position i on,
\* separated by ","
json_items(x, i) ==
    LET elems == IF IsMapping(x) THEN x.m ELSE x.items
        one == IF IsMapping(x)
               THEN <<"\"">> \o elems[i][1] \o <<"\"", ":">>
                    \o json_dumps(elems[i][2])
               ELSE json_dumps(elems[i])
    IN IF i > Len(elems) THEN <<>>
       ELSE IF i = Len(elems) THEN one
       ELSE one \o <<",">> \o json_items(x, i + 1)

\* json.dumps(value, separators=(",", ":"))
json_dumps(x) ==
    CASE x.t = "none" -> <<"null">>
      [] x.t = "bool" -> IF x.b THEN <<"true">> ELSE <<"false">>
      [] x.t = "int" -> <<ToString(x.v)>>
      [] x.t = "float" -> <<ToString(x.v), ".", "0">>
      [] x.t = "str" -> <<"\"">> \o x.s \o <<"\"">>
      [] x.t = "list" -> <<"[">> \o json_items(x, 1) \o <<"]">>
      [] x.t = "map" -> <<"{">> \o json_items(x, 1) \o <<"}">>

\* hashlib.sha256(text).hexdigest(): the digest stands for the text hashed,
\* two digests are equal exactly when the texts are
sha256_hexdigest(text) == [sha256 |-> text]

_compute_hash(data) ==
    sha256_hexdigest(json_dumps(_sort_structure(Map(data))))

----------------------------------------------------------------------------
(* policy.py: validation *)

PolicyDataValidationError(text, args) ==
    Raise("PolicyDataValidationError", text, args)

Min(set) == CHOOSE i \in set : \A j \in set : i <= j

\* _validate_versioned_payload without `or not version.strip()`
_validate_versioned_payload_no_strip(name, payload) ==
    LET version == Get(payload, K("version"))
    IN IF ~IsStr(version)
       THEN PolicyDataValidationError(
                "{name} requires a non-empty 'version' field", <<name>>)
       ELSE Return(NoneV)

_validate_versioned_payload(name, payload) ==
    LET version == Get(payload, K("version"))
    IN IF ~IsStr(version) \/ strip(version.s) = <<>>
       THEN PolicyDataValidationError(
                "{name} requires a non-empty 'version' field", <<name>>)
       ELSE Return(NoneV)

RECURSIVE _validate_numeric_mapping(_, _)
_validate_numeric_mapping(path, payload) ==
    LET Check(i) ==
            LET value == payload[i][2]
                current_path == path \o <<".">> \o payload[i][1]
            IN IF IsMapping(value)
               THEN _validate_numeric_mapping(current_path, value.m)
               ELSE IF IsNumber(value) THEN Return(NoneV)
               ELSE PolicyDataValidationError(
                        "{current_path} must resolve to a numeric value or mapping",
                        <<current_path>>)
        failing == {i \in DOMAIN payload : ~Check(i).ok}
    IN IF failing = {} THEN Return(NoneV) ELSE Check(Min(failing))

_validate_risk_weights(payload) ==
    LET versioned == _validate_versioned_payload(K("risk_weights"), payload)
        exposures == Get(payload, K("exposures"))
    IN IF ~versioned.ok THEN versioned
       ELSE IF ~IsMapping(exposures)
       THEN PolicyDataValidationError(
                "risk_weights must define an 'exposures' mapping", <<>>)
       ELSE LET numeric == _validate_numeric_mapping(
                               <<"risk_weights", ".", "exposures">>, exposures.m)
            IN IF ~numeric.ok THEN numeric ELSE Return(payload)

_validate_lgd_tables(payload) ==
    LET versioned == _validate_versioned_payload(K("lgd_tables"), payload)
        table == Get(payload, K("lgd"))
    IN IF ~versioned.ok THEN versioned
       ELSE IF ~IsMapping(table)
       THEN PolicyDataValidationError(
                "lgd_tables must define an 'lgd' mapping", <<>>)
       ELSE LET numeric == _validate_numeric_mapping(
                               <<"lgd_tables", ".", "lgd">>, table.m)
            IN IF ~numeric.ok THEN numeric ELSE Return(payload)

\* the checks of one rule of hedging_rules
HedgingRule(risk_class, bucket, rules) ==
    IF ~IsMapping(rules)
    THEN PolicyDataValidationError(
             "hedging_rules '{risk_class}.{bucket}' must be a mapping",
             <<risk_class, bucket>>)
    ELSE LET instruments == Get(rules.m, K("eligible_instruments"))
             CheckField(i) ==
                 IF rules.m[i][1] = K("eligible_instruments")
                    \/ IsNumber(rules.m[i][2])
                 THEN Return(NoneV)
                 ELSE PolicyDataValidationError(
                          "hedging_rules '{risk_class}.{bucket}.{key}' must be numeric",
                          <<risk_class, bucket, rules.m[i][1]>>)
             failing == {i \in DOMAIN rules.m : ~CheckField(i).ok}
         IN IF instruments.t # "list" \/ instruments.items = <<>>
            THEN PolicyDataValidationError(
                     "hedging_rules '{risk_class}.{bucket}' requires a non-empty eligible_instruments list",
                     <<risk_class, bucket>>)
            ELSE IF \E j \in DOMAIN instruments.items :
                        ~IsStr(instruments.items[j])
            THEN PolicyDataValidationError(
                     "hedging_rules '{risk_class}.{bucket}' instruments must be strings",
                     <<risk_class, bucket>>)
            ELSE IF failing = {} THEN Return(NoneV)
            ELSE CheckField(Min(failing))

\* the checks of the buckets of one risk class
HedgingBuckets(risk_class, buckets) ==
    IF ~IsMapping(buckets)
    THEN PolicyDataValidationError(
             "hedging_rules '{risk_class}' buckets must be mappings",
             <<risk_class>>)
    ELSE LET Check(i) ==
                 HedgingRule(risk_class, buckets.m[i][1], buckets.m[i][2])
             failing == {i \in DOMAIN buckets.m : ~Check(i).ok}
         IN IF failing = {} THEN Return(NoneV) ELSE Check(Min(failing))

_validate_hedging_rules(payload) ==
    LET versioned == _validate_versioned_payload(K("hedging_rules"), payload)
        hedges == Get(payload, K("hedges"))
    IN IF ~versioned.ok THEN versioned
       ELSE IF ~IsMapping(hedges)
       THEN PolicyDataValidationError(
                "hedging_rules must define a 'hedges' mapping", <<>>)
       ELSE LET Check(i) == HedgingBuckets(hedges.m[i][1], hedges.m[i][2])
                failing == {i \in DOMAIN hedges.m : ~Check(i).ok}
            IN IF failing = {} THEN Return(payload) ELSE Check(Min(failing))

\* the checks of one entry of product_mappings
ProductMapping(product, mapping) ==
    IF ~IsMapping(mapping)
    THEN PolicyDataValidationError(
             "mappings for product '{product}' must be a mapping", <<product>>)
    ELSE LET exposure == Get(mapping.m, K("exposure"))
             quality == Get(mapping.m, K("quality_step"))
         IN IF ~IsStr(exposure) \/ ~Truthy(exposure)
            THEN PolicyDataValidationError(
                     "mappings '{product}' requires a non-empty exposure string",
                     <<product>>)
            ELSE IF ~IsStr(quality) \/ ~Truthy(quality)
            THEN PolicyDataValidationError(
                     "mappings '{product}' requires a non-empty quality_step string",
                     <<product>>)
            ELSE Return(NoneV)

\* the checks of counterparty_grades
CounterpartyGrades(counterparty_grades) ==
    IF ~IsMapping(counterparty_grades) \/ ~Truthy(counterparty_grades)
    THEN PolicyDataValidationError(
             "mappings must define a non-empty 'counterparty_grades' mapping",
             <<>>)
    ELSE IF \E i \in DOMAIN counterparty_grades.m :
                ~IsStr(counterparty_grades.m[i][2])
    THEN PolicyDataValidationError(
             "counterparty_grades must map grade strings to target strings",
             <<>>)
    ELSE Return(NoneV)

_validate_mappings(payload) ==
    LET versioned == _validate_versioned_payload(K("mappings"), payload)
        product_mappings == Get(payload, K("product_mappings"))
    IN IF ~versioned.ok THEN versioned
       ELSE IF ~IsMapping(product_mappings)
       THEN PolicyDataValidationError(
                "mappings must define a 'product_mappings' mapping", <<>>)
       ELSE LET Check(i) == ProductMapping(product_mappings.m[i][1],
                                           product_mappings.m[i][2])
                failing == {i \in DOMAIN product_mappings.m : ~Check(i).ok}
                grades == CounterpartyGrades(
                              Get(payload, K("counterparty_grades")))
            IN IF failing # {} THEN Check(Min(failing))
               ELSE IF ~grades.ok THEN grades
               ELSE Return(payload)

----------------------------------------------------------------------------
(* the backing store and the table files the model puts in it *)

\* PolicyDataLoader.DATASETS, in its order
DATASETS == <<K("risk_weights"), K("lgd_tables"), K("hedging_rules"),
              K("mappings")>>

\* a line of a file: n spaces and the text
Ln(n, text) == [i \in 1..n |-> " "] \o text

\* the line `key: value`, and the line `key:`
KV(n, key, value) == Ln(n, key \o <<":", " ">> \o value)
KO(n, key) == Ln(n, key \o <<":">>)

VersionLine(v) == KV(0, K("version"), <<"\"", v, "\"">>)

RiskWeightsA ==
    << VersionLine("v1"),
       KO(0, K("exposures")),
       KO(2, K("sov")),
       KV(4, K("ig"), <<"2">>),
       KV(4, <<"ig", "/", "x">>, <<"8">>),
       KV(2, K("corp"), <<"5">>),
       Ln(0, <<"#", " ", "fin">>),
       KO(2, K("fin")),
       KO(4, K("bank")),
       KV(6, K("senior"), <<"3">>),
       KV(6, K("sub"), <<"4">>),
       KV(4, K("ig"), <<"7">>),
       KV(4, K("fin"), <<"1", "1">>) >>

\* other weights, keys in another order, a float leaf, a boolean leaf and
\* a leaf under the empty key
RiskWeightsB ==
    << KO(0, K("exposures")),
       KV(2, K("corp"), <<"True">>),
       KO(2, K("sov")),
       KV(4, K("ig"), <<"6", ".", "0">>),
       KV(4, <<>>, <<"9">>),
       VersionLine("v2") >>

LgdTablesA ==
    << VersionLine("v1"),
       KO(0, K("lgd")),
       KO(2, K("fin")),
       KV(4, K("secured"), <<"3">>),
       KO(4, K("bank")),
       KV(6, K("senior"), <<"4">>),
       KO(2, K("sov")),
       KV(4, K("ig"), <<"0">>),
       KV(4, K("senior"), <<"9">>),
       KV(2, K("unsecured"), <<"7">>) >>

HedgingRulesA ==
    << VersionLine("v1"),
       KO(0, K("hedges")),
       KO(2, K("credit")),
       KO(4, K("b")),
       KO(6, K("eligible_instruments")),
       Ln(8, <<"-", " ", "cds">>),
       KV(6, K("offset"), <<"5">>) >>

MappingsA ==
    << VersionLine("v1"),
       KO(0, K("product_mappings")),
       KO(2, K("bond")),
       KV(4, K("exposure"), <<"sov">>),
       KV(4, K("quality_step"), <<"ig">>),
       KO(2, K("loan")),
       KV(4, K("exposure"), <<"fin">>),
       KV(4, K("quality_step"), <<"bank", "/", "senior">>),
       KO(0, K("counterparty_grades")),
       KV(2, K("BBB"), <<"bank", "/", "sub">>),
       KV(2, K("AA"), <<"ig">>) >>

\* a line without ':' : yaml raises ValueError
MalformedNoColon == << VersionLine("v1"), Ln(0, <<"exposures">>) >>

\* a line indented deeper than its block: yaml raises ValueError
MalformedIndent == << VersionLine("v1"), KV(2, K("lgd"), <<"1">>) >>

\* files that parse and fail the schema check of their table
RiskWeightsInvalid ==
    << VersionLine("v1"), KO(0, K("exposures")), KV(2, K("corp"), <<"high">>) >>

LgdTablesInvalid == << VersionLine("v1"), KV(0, K("lgd"), <<"1">>) >>

HedgingRulesInvalid ==
    << VersionLine("v1"),
       KO(0, K("hedges")),
       KO(2, K("credit")),
       KO(4, K("b")),
       KV(6, K("offset"), <<"5">>) >>

MappingsInvalid ==
    << KV(0, K("version"), <<"\"", " ", "\"">>),
       KO(0, K("product_mappings")),
       KO(0, K("counterparty_grades")),
       KV(2, K("AA"), <<"ig">>) >>

\* what a table file of the store holds; the file is missing when "absent"
FileIds(table_name) ==
    IF table_name = K("risk_weights")
    THEN {"absent", "malformed", "invalid", "A", "B"}
    ELSE {"absent", "malformed", "invalid", "A"}

\* the text of the file of a table with the given content
FileText(table_name, id) ==
    CASE table_name = K("risk_weights") ->
             (CASE id = "A" -> RiskWeightsA
                [] id = "B" -> RiskWeightsB
                [] id = "invalid" -> RiskWeightsInvalid
                [] id = "malformed" -> MalformedNoColon)
      [] table_name = K("lgd_tables") ->
             (CASE id = "A" -> LgdTablesA
                [] id = "invalid" -> LgdTablesInvalid
                [] id = "malformed" -> MalformedIndent)
      [] table_name = K("hedging_rules") ->
             (CASE id = "A" -> HedgingRulesA
                [] id = "invalid" -> HedgingRulesInvalid
                [] id = "malformed" -> MalformedNoColon)
      [] table_name = K("mappings") ->
             (CASE id = "A" -> MappingsA
                [] id = "invalid" -> MappingsInvalid
                [] id = "malformed" -> MalformedIndent)

\* the store has no policy directory
NoDir == <<"<none>">>

\* names of policy directories; the second one starts with "."
PolicyNames == {K("BCBS_MAR"), <<".", "draft">>}

\* names a caller may ask for
RequestedNames == PolicyNames \cup {K("x")}

\* the stores the model starts from: no directory, or one directory holding
\* any combination of table files
Stores ==
    {[dir |-> NoDir, files |-> [t \in {DATASETS[i] : i \in 1..4} |-> "absent"]]}
    \cup
    {[dir |-> d, files |-> f] :
        d \in PolicyNames,
        f \in {g \in [{DATASETS[i] : i \in 1..4} ->
                        {"absent", "malformed", "invalid", "A", "B"}] :
                  \A t \in DOMAIN g : g[t] \in FileIds(t)}}

\* (base_path / policy_name).is_dir()
is_dir(st, policy_name) == st.dir # NoDir /\ st.dir = policy_name

\* (base_path / policy_name / file_name).is_file()
is_file(st, policy_name, table_name) ==
    is_dir(st, policy_name) /\ st.files[table_name] # "absent"

available_policies(st) ==
    IF st.dir = NoDir THEN <<>>
    ELSE IF startswith(st.dir, <<".">>) THEN <<>>
    ELSE <<st.dir>>

----------------------------------------------------------------------------
(* PolicyDataLoader *)

_load_yaml(st, policy_name, table_name) ==
    IF ~is_file(st, policy_name, table_name)
    THEN PolicyDataValidationError(
             "Missing required dataset file: {path}",
             <<policy_name \o <<"/">> \o table_name>>)
    ELSE Try(safe_load(FileText(table_name, st.files[table_name])),
             LAMBDA parsed :
                 IF ~IsMapping(parsed)
                 THEN PolicyDataValidationError(
                          "Dataset in {path} must be a mapping",
                          <<policy_name \o <<"/">> \o table_name>>)
                 ELSE Return(parsed.m))

\* getattr(self, f"_validate_{table_name}")(payload)
validator(table_name, payload) ==
    CASE table_name = K("risk_weights") -> _validate_risk_weights(payload)
      [] table_name = K("lgd_tables") -> _validate_lgd_tables(payload)
      [] table_name = K("hedging_rules") -> _validate_hedging_rules(payload)
      [] table_name = K("mappings") -> _validate_mappings(payload)

\* one turn of the loop of load: the table read, validated and hashed
LoadTableStep(st, policy_name, table_name) ==
    Try(_load_yaml(st, policy_name, table_name),
        LAMBDA payload :
    Try(validator(table_name, payload),
        LAMBDA validated :
    Return([data |-> validated, hash |-> _compute_hash(payload)])))

\* the composite hash: the hash of the tables by name, names sorted
CompositeHash(data) ==
    LET order == sorted(Keys(data))
    IN _compute_hash([i \in DOMAIN order |->
                         <<order[i], Map(Item(data, order[i]))>>])

\* the end of load: the composite hash and the PolicyData
LoadResult(policy_name, data, table_hashes) ==
    [name |-> policy_name,
        risk_weights |-> Item(data, K("risk_weights")),
     lgd_tables |-> Item(data, K("lgd_tables")),
        hedging_rules |-> Item(data, K("hedging_rules")),
        mappings |-> Item(data, K("mappings")),
        hashes |-> SetItem(table_hashes, K("policy"), CompositeHash(data))]

RECURSIVE LoadFrom(_, _, _, _, _)
\* load from table i on, on a store that does not change meanwhile
LoadFrom(st, policy_name, i, data, table_hashes) ==
    IF i > Len(DATASETS)
    THEN Return(LoadResult(policy_name, data, table_hashes))
    ELSE Try(LoadTableStep(st, policy_name, DATASETS[i]),
             LAMBDA step :
                 LoadFrom(st, policy_name, i + 1,
                          SetItem(data, DATASETS[i], step.data),
                          SetItem(table_hashes, DATASETS[i], step.hash)))

\* PolicyDataLoader.load on a store that does not change meanwhile
load(st, policy_name) ==
    IF ~is_dir(st, policy_name)
    THEN PolicyDataValidationError(
             "Policy directory '{policy_name}' not found under {base_path}",
             <<policy_name>>)
    ELSE LoadFrom(st, policy_name, 1, <<>>, <<>>)

----------------------------------------------------------------------------
(* rules.py and the scenario calculator *)

Exposure(trade_id, notional, currency, product_type, exposure_class,
         quality_step, counterparty_grade, lgd_grade) ==
    [trade_id |-> trade_id, notional |-> notional, currency |-> currency,
     product_type |-> product_type, exposure_class |-> exposure_class,
     quality_step |-> quality_step, counterparty_grade |-> counterparty_grade,
     lgd_grade |-> lgd_grade, hedging_set |-> NoneV, metadata |-> <<>>]

ScenarioDefinition(name, exposures) == [name |-> name, exposures |-> exposures]

ComputationRequest(policy_name, baseline, scenarios) ==
    [policy |-> policy_name, baseline |-> baseline, scenarios |-> scenarios]

ScenarioValidationError(text, args) ==
    Raise("ScenarioValidationError", text, args)

validate_scenario(scenario) ==
    LET exposures == scenario.exposures
        Check(i) ==
            IF exposures[i].notional <= 0
            THEN ScenarioValidationError(
                     "Exposure {trade_id} must have positive notional",
                     <<exposures[i].trade_id>>)
            ELSE IF exposures[i].currency = <<>>
            THEN ScenarioValidationError(
                     "Exposure {trade_id} requires a reporting currency",
                     <<exposures[i].trade_id>>)
            ELSE IF \E j \in 1..(i - 1) :
                        exposures[j].trade_id = exposures[i].trade_id
            THEN ScenarioValidationError(
                     "Scenario '{name}' contains duplicate trade id '{trade_id}'",
                     <<scenario.name, exposures[i].trade_id>>)
            ELSE Return(NoneV)
        failing == {i \in DOMAIN exposures : ~Check(i).ok}
    IN IF exposures = <<>>
       THEN ScenarioValidationError(
                "Scenario '{name}' must contain at least one exposure",
                <<scenario.name>>)
       ELSE IF failing = {} THEN Return(NoneV)
       ELSE Check(Min(failing))

validate_scenarios(scenarios) ==
    LET failing == {i \in DOMAIN scenarios : ~validate_scenario(scenarios[i]).ok}
    IN IF failing = {} THEN Return(NoneV)
       ELSE validate_scenario(scenarios[Min(failing)])

RECURSIVE Sum(_)
\* sum(values)
Sum(values) == IF values = <<>> THEN 0 ELSE values[1] + Sum(Tail(values))

\* Each that leaves out the calls that raised
Each_skipping(outcomes) ==
    Return(LET kept == SelectSeq(outcomes, LAMBDA outcome : outcome.ok)
           IN [i \in DOMAIN kept |-> kept[i].value])

\* Each with the values in the reverse order
Each_reversed(outcomes) ==
    IF \A i \in DOMAIN outcomes : outcomes[i].ok
    THEN Return([i \in DOMAIN outcomes |->
                    outcomes[Len(outcomes) + 1 - i].value])
    ELSE outcomes[Min({i \in DOMAIN outcomes : ~outcomes[i].ok})]

\* a loop that appends the value of each call to a list: the list, or the
\* exception of the first call that raised
Each(outcomes) ==
    IF \A i \in DOMAIN outcomes : outcomes[i].ok
    THEN Return([i \in DOMAIN outcomes |-> outcomes[i].value])
    ELSE outcomes[Min({i \in DOMAIN outcomes : ~outcomes[i].ok})]

_compute_scenario(policy, scenario) ==
    Try(Each([i \in DOMAIN scenario.exposures |->
                 _compute_exposure(policy, scenario.exposures[i])]),
        LAMBDA exposure_results :
    Return([scenario_name |-> scenario.name,
            total_capital_charge |->
                Sum([i \in DOMAIN exposure_results |->
                        exposure_results[i].capital_charge]),
            exposures |-> exposure_results,
            exposure_count |-> Len(exposure_results),
            total_notional |->
                Sum([i \in DOMAIN exposure_results |->
                        exposure_results[i].notional])]))

\* compute after validation and load: the baseline, then the alternatives
ComputeResult(policy, req) ==
    Try(Each(<<_compute_scenario(policy, req.baseline)>> \o
             [i \in DOMAIN req.scenarios |->
                 _compute_scenario(policy, req.scenarios[i])]),
        LAMBDA computed :
    Return([policy |-> [name |-> policy.name, dataset_hashes |-> policy.hashes],
            baseline |-> Head(computed),
            scenarios |-> Tail(computed)]))

----------------------------------------------------------------------------
(* inputs of the calls *)

RECURSIVE _flatten_risk_weights(_, _)
\* the <<path, value>> pairs of the leaves of a nested mapping
_flatten_risk_weights(node, prefix) ==
    UNION {IF IsMapping(node[i][2])
           THEN _flatten_risk_weights(node[i][2].m, Append(prefix, node[i][1]))
           ELSE {<<Append(prefix, node[i][1]), node[i][2]>>} : i \in DOMAIN node}

\* the exposure the property test builds from the path of a leaf
PathExposure(path) ==
    LET quality == join("/", Tail(path))
    IN Exposure(K("prop"), 1, K("USD"), NoneV, Str(path[1]),
                IF quality = <<>> THEN NoneV ELSE Str(quality), NoneV, NoneV)

PathRequest(policy_name, path) ==
    ComputationRequest(policy_name,
                       ScenarioDefinition(K("prop"), <<PathExposure(path)>>),
                       <<>>)

\* the tables of the two valid risk-weight files
ExposuresA == Item(safe_load(RiskWeightsA).value.m, K("exposures")).m
ExposuresB == Item(safe_load(RiskWeightsB).value.m, K("exposures")).m

\* the paths of the leaves of the valid risk-weight tables
LeafPaths ==
    {leaf[1] : leaf \in _flatten_risk_weights(ExposuresA, <<>>)
                        \cup _flatten_risk_weights(ExposuresB, <<>>)}

\* a request whose baseline has no exposure
EmptyRequest ==
    ComputationRequest(K("BCBS_MAR"), ScenarioDefinition(K("a"), <<>>), <<>>)

Requests ==
    {PathRequest(K("BCBS_MAR"), path) : path \in LeafPaths} \cup {EmptyRequest}

----------------------------------------------------------------------------
(* Spec: load and compute calls, step by step, on a store *)

NoCall == [op |-> "none", policy_name |-> <<>>]

Init ==
    /\ store \in Stores
    /\ pc = "idle"
    /\ call = NoCall
    /\ load_data = <<>>
    /\ load_hashes = <<>>
    /\ loaded = NoneV
    /\ edits = 0
    /\ request = NoneV
    /\ response = NoneV
    /\ routes = <<>>
    /\ _storage = <<>>
    /\ threads = <<>>
    /\ log = <<>>

\* a caller calls PolicyDataLoader.load(policy_name)
CallLoad(policy_name) ==
    /\ pc = "idle"
    /\ pc' = "load"
    /\ call' = [op |-> "load", policy_name |-> policy_name]
    /\ UNCHANGED <<routes, _storage, threads, log>>
    /\ UNCHANGED <<store, load_data, load_hashes, loaded, edits, request,
                   response>>

\* a caller calls DRCSACalculationEngine.compute(req): the scenarios are
\* validated, then the policy is loaded
CallCompute(req) ==
    /\ pc = "idle"
    /\ call' = [op |-> "compute", policy_name |-> req.policy]
    /\ request' = req
    /\ LET Validated(outcome) ==
               IF outcome.ok
               THEN pc' = "load" /\ response' = response
               ELSE pc' = "done" /\ response' = outcome
       IN Validated(validate_scenarios(<<req.baseline>> \o req.scenarios))
    /\ UNCHANGED <<routes, _storage, threads, log>>
    /\ UNCHANGED <<store, load_data, load_hashes, loaded, edits>>

\* LoadDir of a loader that keeps the PolicyData of its last successful
\* load and returns it when the same policy is asked for again
LoadDir_cached ==
    /\ pc = "load"
    /\ IF loaded # NoneV /\ loaded.ok /\ loaded.value.name = call.policy_name
       THEN /\ pc' = "loaded"
            /\ UNCHANGED <<load_data, load_hashes, loaded>>
       ELSE IF is_dir(store, call.policy_name)
       THEN /\ pc' = "table"
            /\ load_data' = <<>>
            /\ load_hashes' = <<>>
            /\ loaded' = NoneV
       ELSE /\ pc' = "loaded"
            /\ loaded' = PolicyDataValidationError(
                   "Policy directory '{policy_name}' not found under {base_path}",
                   <<call.policy_name>>)
            /\ UNCHANGED <<load_data, load_hashes>>
    /\ UNCHANGED <<routes, _storage, threads, log>>
    /\ UNCHANGED <<store, call, edits, request, response>>

\* load: the directory check
LoadDir ==
    /\ pc = "load"
    /\ IF is_dir(store, call.policy_name)
       THEN /\ pc' = "table"
            /\ load_data' = <<>>
            /\ load_hashes' = <<>>
            /\ loaded' = NoneV
       ELSE /\ pc' = "loaded"
            /\ loaded' = PolicyDataValidationError(
                   "Policy directory '{policy_name}' not found under {base_path}",
                   <<call.policy_name>>)
            /\ UNCHANGED <<load_data, load_hashes>>
    /\ UNCHANGED <<routes, _storage, threads, log>>
    /\ UNCHANGED <<store, call, edits, request, response>>

\* load: one turn of the loop over DATASETS
LoadTable ==
    /\ pc = "table"
    /\ Len(load_data) < Len(DATASETS)
    /\ LET table_name == DATASETS[Len(load_data) + 1]
           Turn(step) ==
               IF step.ok
               THEN /\ load_data' = SetItem(load_data, table_name,
                                            step.value.data)
                    /\ load_hashes' = SetItem(load_hashes, table_name,
                                              step.value.hash)
                    /\ UNCHANGED <<pc, loaded>>
               ELSE /\ loaded' = step
                    /\ pc' = "loaded"
                    /\ UNCHANGED <<load_data, load_hashes>>
       IN Turn(LoadTableStep(store, call.policy_name, table_name))
    /\ UNCHANGED <<routes, _storage, threads, log>>
    /\ UNCHANGED <<store, call, edits, request, response>>

\* load: the composite hash and the return
LoadReturn ==
    /\ pc = "table"
    /\ Len(load_data) = Len(DATASETS)
    /\ loaded' = Return(LoadResult(call.policy_name, load_data, load_hashes))
    /\ pc' = "loaded"
    /\ UNCHANGED <<routes, _storage, threads, log>>
    /\ UNCHANGED <<store, call, load_data, load_hashes, edits, request,
                   response>>

\* load is over and load was the call: its outcome is the caller's
ReturnLoad ==
    /\ pc = "loaded"
    /\ call.op = "load"
    /\ response' = loaded
    /\ pc' = "done"
    /\ UNCHANGED <<routes, _storage, threads, log>>
    /\ UNCHANGED <<store, call, load_data, load_hashes, loaded, edits,
                   request>>

\* load is over inside compute: an error propagates, else the scenarios
\* are computed and the result returned
ComputeScenarios ==
    /\ pc = "loaded"
    /\ call.op = "compute"
    /\ response' = IF loaded.ok THEN ComputeResult(loaded.value, request)
                   ELSE loaded
    /\ pc' = "done"
    /\ UNCHANGED <<routes, _storage, threads, log>>
    /\ UNCHANGED <<store, call, load_data, load_hashes, loaded, edits,
                   request>>

Next ==
    \/ \E policy_name \in RequestedNames : CallLoad(policy_name)
    \/ \E req \in Requests : CallCompute(req)
    \/ LoadDir
    \/ LoadTable
    \/ LoadReturn
    \/ ReturnLoad
    \/ ComputeScenarios

Spec == Init /\ [][Next]_vars

----------------------------------------------------------------------------
(* SpecEngine: the methods of the engine applied to one input, on a policy *)
(* that loaded                                                             *)

\* largest notional of an exposure
MaxNotional == 2

\* longest classification path handed to _risk_weight_from_policy
MaxDepth == 3

\* the stores whose policy loads: every table valid
ValidStores ==
    {st \in Stores : st.dir = K("BCBS_MAR")
                     /\ \A t \in DOMAIN st.files : st.files[t] \in {"A", "B"}}

ExposureClasses == {NoneV, Str(<<>>), S("sov"), S("fin"), S("corp")}

QualitySteps ==
    {NoneV, S("ig"), S("corp"), Str(<<"/">>),
     Str(<<"bank", "/", "senior">>), Str(<<"bank", "/", "sub">>),
     Str(<<"bank", "/", "/", "senior">>),
     Str(<<"ig", "/", "bank", "/", "senior">>)}

ProductTypes == {NoneV, S("bond"), S("loan"), S("fx")}

CounterpartyGrades_ == {NoneV, S("BBB"), S("AA"), S("C")}

LgdGrades == {NoneV, S("secured"), S("unsecured"), S("bank")}

Exposures ==
    {Exposure(K("T1"), n, K("USD"), pt, ec, qs, cg, lg) :
        n \in 1..MaxNotional, pt \in ProductTypes, ec \in ExposureClasses,
        qs \in QualitySteps, cg \in CounterpartyGrades_, lg \in LgdGrades}

PathKeys ==
    {K("sov"), K("fin"), K("corp"), K("ig"), K("bank"), K("senior"), K("sub"),
     <<"ig", "/", "x">>}

Paths == UNION {[1..n -> PathKeys] : n \in 1..MaxDepth}

InitEngine ==
    /\ store \in ValidStores
    /\ pc = "engine"
    /\ call = NoCall
    /\ load_data = <<>>
    /\ load_hashes = <<>>
    /\ loaded = load(store, K("BCBS_MAR"))
    /\ edits = 0
    /\ request = NoneV
    /\ response = NoneV
    /\ routes = <<>>
    /\ _storage = <<>>
    /\ threads = <<>>
    /\ log = <<>>

\* one method of the engine was applied to the input
EngineCall(op, input, outcome) ==
    /\ pc' = "done"
    /\ call' = [op |-> op, policy_name |-> loaded.value.name]
    /\ request' = input
    /\ response' = outcome
    /\ UNCHANGED <<routes, _storage, threads, log>>
    /\ UNCHANGED <<store, load_data, load_hashes, loaded, edits>>

CallResolveClassification ==
    /\ pc = "engine"
    /\ \E exposure \in Exposures :
           EngineCall("_resolve_classification", exposure,
                      _resolve_classification(loaded.value, exposure))

CallRiskWeightFromPolicy ==
    /\ pc = "engine"
    /\ \E classification_path \in Paths :
           EngineCall("_risk_weight_from_policy", classification_path,
                      _risk_weight_from_policy(loaded.value,
                                               classification_path))

CallResolveLgd ==
    /\ pc = "engine"
    /\ \E exposure \in Exposures :
           EngineCall("_resolve_lgd", exposure,
                      _resolve_lgd(loaded.value, exposure))

CallComputeExposure ==
    /\ pc = "engine"
    /\ \E exposure \in Exposures :
           EngineCall("_compute_exposure", exposure,
                      _compute_exposure(loaded.value, exposure))

NextEngine ==
    \/ CallResolveClassification
    \/ CallRiskWeightFromPolicy
    \/ CallResolveLgd
    \/ CallComputeExposure

SpecEngine == InitEngine /\ [][NextEngine]_vars

\* the engine call op has returned or raised
Done(op) == pc = "done" /\ call.op = op

----------------------------------------------------------------------------
(* what the claims expect of the classification, stated on the tables *)

Unset(x) == x = NoneV \/ x = Str(<<>>)

\* the entry of product_mappings for the product_type of the exposure
ProductEntry(policy, exposure) ==
    LET product_mappings == Item(policy.mappings, K("product_mappings")).m
    IN IF ~Unset(exposure.product_type)
          /\ exposure.product_type.s \in Keys(product_mappings)
       THEN Item(product_mappings, exposure.product_type.s)
       ELSE NoneV

\* explicit field > product mapping
EffectiveClass(policy, exposure) ==
    IF ~Unset(exposure.exposure_class) THEN exposure.exposure_class
    ELSE IF ProductEntry(policy, exposure) # NoneV
    THEN Item(ProductEntry(policy, exposure).m, K("exposure"))
    ELSE NoneV

\* explicit field > product mapping > counterparty grade
EffectiveQuality(policy, exposure) ==
    LET grades == Item(policy.mappings, K("counterparty_grades")).m
    IN IF ~Unset(exposure.quality_step) THEN exposure.quality_step
       ELSE IF ProductEntry(policy, exposure) # NoneV
       THEN Item(ProductEntry(policy, exposure).m, K("quality_step"))
       ELSE IF ~Unset(exposure.counterparty_grade)
               /\ exposure.counterparty_grade.s \in Keys(grades)
       THEN Item(grades, exposure.counterparty_grade.s)
       ELSE NoneV

\* the exposure with its effective class and quality given explicitly
Explicit(policy, exposure) ==
    [exposure EXCEPT !.exposure_class = EffectiveClass(policy, exposure),
                     !.quality_step = EffectiveQuality(policy, exposure)]

Absent == [t |-> "absent"]

RECURSIVE Follow(_, _, _)
\* the value found by following the path key by key from position i on,
\* through mappings only
Follow(node, path, i) ==
    IF path[i] \notin Keys(node) THEN Absent
    ELSE IF i = Len(path) THEN Item(node, path[i])
    ELSE IF Item(node, path[i]).t = "map"
    THEN Follow(Item(node, path[i]).m, path, i + 1)
    ELSE Absent

PolicyExposures(policy) == Item(policy.risk_weights, K("exposures")).m

----------------------------------------------------------------------------
(* Claims on the engine, under SpecEngine *)

\* C1: the capital charge of a resolved exposure is notional x risk_weight
\* x lgd when an LGD resolved (zero included) and notional x risk_weight
\* when none resolved; the reported risk_weight and lgd are the resolved ones
C1_CapitalCharge ==
    (Done("_compute_exposure") /\ response.ok) =>
        LET r == response.value
        IN /\ Return(r.risk_weight) =
                  _risk_weight_from_policy(loaded.value, r.classification_path)
           /\ Return(r.lgd) = _resolve_lgd(loaded.value, request)
           /\ r.capital_charge =
                  IF r.lgd = NoneV
                  THEN request.notional * r.risk_weight
                  ELSE request.notional * r.risk_weight * r.lgd.v

\* an exposure was computed with an LGD of zero
C1_Witness ==
    /\ Done("_compute_exposure")
    /\ response.ok
    /\ response.value.lgd = Float_(0)
    /\ response.value.risk_weight > 0
    /\ response.value.capital_charge = 0

\* C2: a path that leads through mappings only to a numeric leaf resolves
\* to the value of that leaf, and nothing is raised
C2_LeafResolved ==
    Done("_risk_weight_from_policy") =>
        LET leaf == Follow(PolicyExposures(loaded.value), request, 1)
        IN leaf.t \in {"int", "float", "bool"} =>
               /\ response.ok
               /\ response.value = (IF leaf.t = "bool"
                                    THEN (IF leaf.b THEN 1 ELSE 0)
                                    ELSE leaf.v)

\* a path of three segments resolved to its integer leaf
C2_Witness ==
    /\ Done("_risk_weight_from_policy")
    /\ request = <<K("fin"), K("bank"), K("sub")>>
    /\ response = Return(4)

\* C4: an exposure that relies on a mapped product_type for an unset
\* class or quality step gets the classification path and risk weight of
\* the exposure that gives the effective class and quality step explicitly
C4_ProductEqualsExplicit ==
    Done("_resolve_classification") =>
        LET policy == loaded.value
            explicit == Explicit(policy, request)
            Weight(c) == IF c.ok THEN _risk_weight_from_policy(policy, c.value)
                         ELSE c
        IN (ProductEntry(policy, request) # NoneV
            /\ (Unset(request.exposure_class) \/ Unset(request.quality_step)))
           => /\ response = _resolve_classification(policy, explicit)
              /\ response = _resolve_classification(
                                policy, [explicit EXCEPT !.product_type = NoneV])
              /\ Weight(response) =
                     Weight(_resolve_classification(policy, explicit))

\* the class was explicit, the quality step came from the product mapping
C4_Witness ==
    /\ Done("_resolve_classification")
    /\ request.product_type = S("loan")
    /\ request.exposure_class = S("sov")
    /\ request.quality_step = NoneV
    /\ response = Return(<<K("sov"), K("bank"), K("senior")>>)

\* C5: the whole ExposureComputation of an exposure that leaves class and
\* quality step unset and relies on a mapped product_type equals that of
\* the exposure that gives the mapped class and quality step explicitly
C5_ComputationEqualsExplicit ==
    Done("_compute_exposure") =>
        LET policy == loaded.value
        IN (ProductEntry(policy, request) # NoneV
            /\ Unset(request.exposure_class) /\ Unset(request.quality_step))
           => response = _compute_exposure(policy, Explicit(policy, request))

\* C6: the effective class is the explicit one, else the product mapping's;
\* the effective quality step is the explicit one, else the product
\* mapping's, else the one of the counterparty grade; the path is built from
\* these, and classification fails exactly when one of them is unset
C6_Precedence ==
    Done("_resolve_classification") =>
        LET exposure_class == EffectiveClass(loaded.value, request)
            quality == EffectiveQuality(loaded.value, request)
        IN IF Unset(exposure_class) \/ Unset(quality)
           THEN ~response.ok
           ELSE response =
                    Return(<<exposure_class.s>>
                           \o SelectSeq(split(quality.s, "/"),
                                        LAMBDA x : x # <<>>))

\* the quality step came from the counterparty grade, the product type
\* being unmapped
C6_Witness ==
    /\ Done("_resolve_classification")
    /\ request.product_type = S("fx")
    /\ request.exposure_class = S("fin")
    /\ request.quality_step = NoneV
    /\ request.counterparty_grade = S("BBB")
    /\ response = Return(<<K("fin"), K("bank"), K("sub")>>)

\* what C7 expects when a field is still unset, for an error kind
MissingFieldError(kind) ==
    Done("_resolve_classification") =>
        LET exposure_class == EffectiveClass(loaded.value, request)
            quality == EffectiveQuality(loaded.value, request)
        IN /\ Unset(exposure_class) =>
                  response = Raise(kind,
                      "Exposure {trade_id} missing exposure_class and no mapping available",
                      <<request.trade_id>>)
           /\ (~Unset(exposure_class) /\ Unset(quality)) =>
                  response = Raise(kind,
                      "Exposure {trade_id} missing quality_step for class {exposure_class}",
                      <<request.trade_id, exposure_class.s>>)

----------------------------------------------------------------------------
(* SpecHash: the hashes of two payloads *)

\* the values of the payloads hashed: numbers, and a mapping and a list of
\* a mapping in both orders of their keys
HashValues ==
    LET ab == << <<K("a"), Int_(1)>>, <<K("b"), Int_(2)>> >>
        ba == << <<K("b"), Int_(2)>>, <<K("a"), Int_(1)>> >>
    IN {Int_(1), Int_(2), Map(ab), Map(ba), List(<<Map(ab)>>),
        List(<<Map(ba)>>)}

\* the payloads hashed: the insertion-ordered mappings of at most two keys
Payloads ==
    {<<>>}
    \cup {<< <<k, v>> >> : k \in {K("a"), K("b")}, v \in HashValues}
    \cup {<< <<kv[1], v>>, <<kv[2], w>> >> :
             kv \in {<<K("a"), K("b")>>, <<K("b"), K("a")>>},
             v \in HashValues, w \in HashValues}

\* the `data` of a load whose four tables hold the payload
TablesOf(payload) == [i \in DOMAIN DATASETS |-> <<DATASETS[i], payload>>]

InitHash ==
    /\ store \in {st \in ValidStores : \A t \in DOMAIN st.files : st.files[t] = "A"}
    /\ pc = "hash"
    /\ call = NoCall
    /\ load_data = <<>>
    /\ load_hashes = <<>>
    /\ loaded = NoneV
    /\ edits = 0
    /\ request = NoneV
    /\ response = NoneV
    /\ routes = <<>>
    /\ _storage = <<>>
    /\ threads = <<>>
    /\ log = <<>>

\* two payloads are hashed, as a table and as the tables of a policy
CallComputeHash ==
    /\ pc = "hash"
    /\ \E first \in Payloads, second \in Payloads :
           /\ request' = <<first, second>>
           /\ response' = [table |-> <<_compute_hash(first),
                                       _compute_hash(second)>>,
                           policy |-> <<CompositeHash(TablesOf(first)),
                                        CompositeHash(TablesOf(second))>>]
    /\ pc' = "done"
    /\ call' = [op |-> "_compute_hash", policy_name |-> <<>>]
    /\ UNCHANGED <<routes, _storage, threads, log>>
    /\ UNCHANGED <<store, load_data, load_hashes, loaded, edits>>

NextHash == CallComputeHash

SpecHash == InitHash /\ [][NextHash]_vars

RECURSIVE SameMapping(_, _)
\* two values are equal as nested mappings: the same keys with equal values,
\* whatever the order of the keys; lists equal element by element
SameMapping(x, y) ==
    IF x.t = "map" /\ y.t = "map"
    THEN /\ Keys(x.m) = Keys(y.m)
         /\ \A k \in Keys(x.m) : SameMapping(Item(x.m, k), Item(y.m, k))
    ELSE IF x.t = "list" /\ y.t = "list"
    THEN /\ Len(x.items) = Len(y.items)
         /\ \A i \in DOMAIN x.items : SameMapping(x.items[i], y.items[i])
    ELSE x = y

\* C8: two payloads that are equal as nested mappings have the same table
\* hash and the same composite policy hash, whatever the order of their keys
\* at any nesting level
C8_HashKeyOrder ==
    Done("_compute_hash") =>
        (SameMapping(Map(request[1]), Map(request[2])) =>
            /\ response.table[1] = response.table[2]
            /\ response.policy[1] = response.policy[2])

\* two payloads whose keys are in another order at both levels, and in a
\* mapping inside a list, were hashed
C8_Witness ==
    /\ Done("_compute_hash")
    /\ request[1] = << <<K("a"), Map(<< <<K("a"), Int_(1)>>, <<K("b"), Int_(2)>> >>)>>,
                       <<K("b"), List(<<Map(<< <<K("a"), Int_(1)>>, <<K("b"), Int_(2)>> >>)>>)>> >>
    /\ request[2] = << <<K("b"), List(<<Map(<< <<K("b"), Int_(2)>>, <<K("a"), Int_(1)>> >>)>>)>>,
                       <<K("a"), Map(<< <<K("b"), Int_(2)>>, <<K("a"), Int_(1)>> >>)>> >>
    /\ response.table[1] = response.table[2]

----------------------------------------------------------------------------
(* Claims on load and compute, under Spec *)

\* the load of the call succeeded
LoadedOk == loaded # NoneV /\ loaded.ok

\* the value of the leaf at the path in the policy that was loaded
LeafAt(path) == Follow(PolicyExposures(loaded.value), path, 1)

\* what C3 expects of the paths that satisfy the condition
PathRequestResolves(Covered(_)) ==
    (Done("compute") /\ LoadedOk) =>
        \A path \in LeafPaths :
            (/\ request = PathRequest(K("BCBS_MAR"), path)
             /\ LeafAt(path).t \in {"int", "float", "bool"}
             /\ Covered(path))
            => /\ response.ok
               /\ response.value.baseline.exposures[1].risk_weight =
                      (IF LeafAt(path).t = "bool"
                       THEN (IF LeafAt(path).b THEN 1 ELSE 0)
                       ELSE LeafAt(path).v)

PlainKeys(path) ==
    /\ path[1] # <<>>
    /\ \A i \in 2..Len(path) :
           path[i] # <<>> /\ \A j \in DOMAIN path[i] : path[i][j] # "/"

TableFails(st, table_name) ==
    /\ st.files[table_name] # "absent"
    /\ LET parsed == safe_load(FileText(table_name, st.files[table_name]))
       IN ~parsed.ok \/ ~validator(table_name, parsed.value.m).ok

\* C9: load fails with the policy validation error when the policy
\* directory does not exist and when one of its four table files is missing
C9_MissingRaisesValidationError ==
    Done("load") =>
        ((\/ ~is_dir(store, call.policy_name)
          \/ \E t \in DOMAIN store.files : store.files[t] = "absent")
         => /\ ~response.ok
            /\ response.error = "PolicyDataValidationError")

\* C10: when a table does not parse into a mapping or fails its schema
\* check, load fails with the policy validation error, never another kind,
\* and returns no PolicyData
C10_FailingTableRaisesValidationError ==
    Done("load") =>
        ((/\ is_dir(store, call.policy_name)
          /\ \E t \in DOMAIN store.files : TableFails(store, t))
         => /\ ~response.ok
            /\ response.error = "PolicyDataValidationError")

----------------------------------------------------------------------------
(* Claims on the tables of a loaded policy, under Spec *)

RECURSIVE NumericLeaves(_)
\* every leaf of the nested mapping, at every depth, is an int or a float
NumericLeaves(node) ==
    \A i \in DOMAIN node :
        IF node[i][2].t = "map" THEN NumericLeaves(node[i][2].m)
        ELSE node[i][2].t \in {"int", "float"}

PolicyLgd(policy) == Item(policy.lgd_tables, K("lgd")).m

\* C11: a policy loads only if every leaf of risk_weights.exposures and of
\* lgd_tables.lgd, at every depth, is a number or a further mapping (a
\* string, a sequence, a boolean is not a number), and the load of a table
\* with a string leaf fails with the policy validation error that names the
\* dotted path of the leaf
C11_OnlyNumericLeavesLoad ==
    /\ (Done("load") /\ response.ok) =>
           /\ NumericLeaves(PolicyExposures(response.value))
           /\ NumericLeaves(PolicyLgd(response.value))
    /\ (/\ Done("load")
        /\ is_dir(store, call.policy_name)
        /\ store.files[K("risk_weights")] = "invalid")
       => response = PolicyDataValidationError(
              "{current_path} must resolve to a numeric value or mapping",
              << <<"risk_weights", ".", "exposures", ".", "corp">> >>)

\* the table carries a version that is a string with a character that is
\* not white space
VersionOk(table) ==
    LET version == Get(table, K("version"))
    IN /\ version.t = "str"
       /\ \E i \in DOMAIN version.s : ~IsSpace(version.s[i])

\* the rule has a non-empty list of strings under eligible_instruments and
\* a number (of Python: an int, a float, or a bool, which is an int) under
\* every other field
RuleOk(rule) ==
    /\ rule.t = "map"
    /\ LET instruments == Get(rule.m, K("eligible_instruments"))
       IN /\ instruments.t = "list"
          /\ instruments.items # <<>>
          /\ \A k \in DOMAIN instruments.items : instruments.items[k].t = "str"
    /\ \A f \in DOMAIN rule.m :
           rule.m[f][1] # K("eligible_instruments")
           => rule.m[f][2].t \in {"int", "float", "bool"}

\* hedges is risk class -> bucket -> rule
HedgesOk(table) ==
    LET hedges == Get(table, K("hedges"))
    IN /\ hedges.t = "map"
       /\ \A i \in DOMAIN hedges.m :
              /\ hedges.m[i][2].t = "map"
              /\ \A j \in DOMAIN hedges.m[i][2].m :
                     RuleOk(hedges.m[i][2].m[j][2])

NonEmptyStr(x) == x.t = "str" /\ x.s # <<>>

\* product_mappings entries have non-empty strings exposure and
\* quality_step; counterparty_grades is a non-empty map to strings
MappingsOk(table) ==
    LET product_mappings == Get(table, K("product_mappings"))
        counterparty_grades == Get(table, K("counterparty_grades"))
    IN /\ product_mappings.t = "map"
       /\ \A i \in DOMAIN product_mappings.m :
              /\ product_mappings.m[i][2].t = "map"
              /\ NonEmptyStr(Get(product_mappings.m[i][2].m, K("exposure")))
              /\ NonEmptyStr(Get(product_mappings.m[i][2].m,
                                 K("quality_step")))
       /\ counterparty_grades.t = "map"
       /\ counterparty_grades.m # <<>>
       /\ \A i \in DOMAIN counterparty_grades.m :
              counterparty_grades.m[i][2].t = "str"

----------------------------------------------------------------------------
(* SpecStore: load calls on one loader, the store edited between the calls *)

\* external edits of the store in one behaviour
MaxEdits == 2

\* the tables of a policy directory, all there and valid
ValidFiles == [t \in {DATASETS[i] : i \in 1..4} |-> "A"]

\* the stores one external edit makes of the store: the policy directory
\* removed or created, or one table file removed, created or rewritten
EditedStores(st) ==
    IF st.dir = NoDir
    THEN {[dir |-> K("BCBS_MAR"), files |-> ValidFiles]}
    ELSE {[dir |-> NoDir, files |-> [t \in DOMAIN st.files |-> "absent"]]}
         \cup UNION {{[st EXCEPT !.files[t] = id] :
                         id \in FileIds(t) \ {st.files[t]}} :
                     t \in DOMAIN st.files}

InitStore ==
    /\ store \in {[dir |-> K("BCBS_MAR"), files |-> ValidFiles],
                  [dir |-> NoDir,
                   files |-> [t \in DOMAIN ValidFiles |-> "absent"]]}
    /\ pc = "idle"
    /\ call = NoCall
    /\ load_data = <<>>
    /\ load_hashes = <<>>
    /\ loaded = NoneV
    /\ edits = 0
    /\ request = NoneV
    /\ response = NoneV
    /\ routes = <<>>
    /\ _storage = <<>>
    /\ threads = <<>>
    /\ log = <<>>

\* something outside the program edits the store, between two calls
Edit ==
    /\ pc = "idle"
    /\ edits < MaxEdits
    /\ store' \in EditedStores(store)
    /\ edits' = edits + 1
    /\ UNCHANGED <<routes, _storage, threads, log>>
    /\ UNCHANGED <<pc, call, load_data, load_hashes, loaded, request,
                   response>>

\* the caller has the outcome; the loader, the same object (the singleton
\* of the process), is ready for the next call
Again ==
    /\ pc = "done"
    /\ pc' = "idle"
    /\ UNCHANGED <<routes, _storage, threads, log>>
    /\ UNCHANGED <<store, call, load_data, load_hashes, loaded, edits,
                   request, response>>

NextStore ==
    \/ CallLoad(K("BCBS_MAR"))
    \/ LoadDir
    \/ LoadTable
    \/ LoadReturn
    \/ ReturnLoad
    \/ Edit
    \/ Again

SpecStore == InitStore /\ [][NextStore]_vars

\* the table as the file of the store holds it now
StoreTable(st, table_name) ==
    safe_load(FileText(table_name, st.files[table_name])).value.m

\* the directory and the four files are there, and each file parses and
\* passes the check of its table
StoreValid(st, policy_name) ==
    /\ is_dir(st, policy_name)
    /\ \A t \in DOMAIN st.files :
           /\ st.files[t] # "absent"
           /\ safe_load(FileText(t, st.files[t])).ok
           /\ validator(t, StoreTable(st, t)).ok

\* C13: the loader caches nothing: whatever edits and loads came before, a
\* load that succeeds returns the tables of the store as it is at that load
\* and their hashes, and a load when the content is invalid or was removed
\* fails
C13_NoCaching ==
    Done("load") =>
        IF StoreValid(store, call.policy_name)
        THEN /\ response.ok
             /\ response.value.risk_weights =
                    StoreTable(store, K("risk_weights"))
             /\ response.value.lgd_tables = StoreTable(store, K("lgd_tables"))
             /\ response.value.hedging_rules =
                    StoreTable(store, K("hedging_rules"))
             /\ response.value.mappings = StoreTable(store, K("mappings"))
             /\ \A t \in DOMAIN store.files :
                    Item(response.value.hashes, t) =
                        _compute_hash(StoreTable(store, t))
             /\ response = load(store, call.policy_name)
        ELSE ~response.ok

\* a load has finished on the store as edited after an earlier load (whose
\* outcome the caller still holds) succeeded on other content
C13_Witness ==
    /\ pc = "loaded"
    /\ call.op = "load"
    /\ edits >= 1
    /\ response # NoneV
    /\ response.ok
    /\ loaded.ok
    /\ response.value.hashes # loaded.value.hashes

----------------------------------------------------------------------------
(* SpecScenario: compute on requests of several scenarios, then the
   comparison of the results *)

\* exposures of a scenario, alternative scenarios of a request
MaxExposures == 2
MaxScenarios == 2

\* fin/bank/senior: risk weight 3 and LGD 4 in the tables of the catalogue
SeniorExposure(trade_id) ==
    Exposure(trade_id, 1, K("USD"), NoneV, Str(K("fin")),
             Str(<<"bank", "/", "senior">>), NoneV, NoneV)

\* fin/ig: risk weight 7 and no LGD
IgExposure(trade_id) ==
    Exposure(trade_id, 2, K("USD"), NoneV, Str(K("fin")), Str(K("ig")),
             NoneV, NoneV)

\* a class the risk weights do not have
UnknownClassExposure(trade_id) ==
    Exposure(trade_id, 1, K("USD"), NoneV, Str(K("zzz")), Str(K("ig")),
             NoneV, NoneV)

\* neither class nor product nor grade
UnclassifiedExposure(trade_id) ==
    Exposure(trade_id, 1, K("USD"), NoneV, NoneV, NoneV, NoneV, NoneV)

ZeroNotionalExposure(trade_id) ==
    [SeniorExposure(trade_id) EXCEPT !.notional = 0]

NoCurrencyExposure(trade_id) ==
    [SeniorExposure(trade_id) EXCEPT !.currency = <<>>]

ExposurePool ==
    {SeniorExposure(K("t1")), IgExposure(K("t1")), IgExposure(K("t2"))}
    \cup {UnknownClassExposure(K("t2")), UnclassifiedExposure(K("t2")),
          ZeroNotionalExposure(K("t2")), NoCurrencyExposure(K("t2"))}

\* the lists of exposures of a baseline
BaselineExposures == UNION {[1..n -> ExposurePool] : n \in 0..MaxExposures}

\* the lists of exposures of an alternative scenario
AlternativeExposures ==
    {<<>>, <<SeniorExposure(K("t2"))>>, <<IgExposure(K("t1"))>>}
    \cup {<<IgExposure(K("t2")), SeniorExposure(K("t1"))>>,
          <<SeniorExposure(K("t1")), IgExposure(K("t1"))>>,
          <<IgExposure(K("t1")), UnknownClassExposure(K("t2"))>>}

\* the name of the i-th alternative scenario
AlternativeName(i) == <<"s", ToString(i)>>

ScenarioRequests ==
    {ComputationRequest(
         K("BCBS_MAR"),
         ScenarioDefinition(K("base"), baseline),
         [i \in DOMAIN alternatives |->
             ScenarioDefinition(AlternativeName(i), alternatives[i])]) :
       baseline \in BaselineExposures,
       alternatives \in UNION {[1..k -> AlternativeExposures] :
                                  k \in 0..MaxScenarios}}

\* compute with the policy loaded before the scenarios are validated
compute_load_first(st, req) ==
    Try(load(st, req.policy),
        LAMBDA policy :
    Try(validate_scenarios(<<req.baseline>> \o req.scenarios),
        LAMBDA validated :
    ComputeResult(policy, req)))

\* DRCSACalculationEngine.compute: the scenarios are validated, the policy
\* is loaded, the baseline and the alternatives are computed
compute(st, req) ==
    Try(validate_scenarios(<<req.baseline>> \o req.scenarios),
        LAMBDA validated :
    Try(load(st, req.policy),
        LAMBDA policy :
    ComputeResult(policy, req)))

\* compare_scenarios with an entry for every trade of the baseline too
compare_scenarios_all_trades(baseline, scenario) ==
    LET Map_[i \in 0..Len(baseline.exposures)] ==
            IF i = 0 THEN <<>>
            ELSE SetItem(Map_[i - 1], baseline.exposures[i].trade_id,
                         0 - baseline.exposures[i].capital_charge)
        Deltas[i \in 0..Len(scenario.exposures)] ==
            IF i = 0 THEN Map_[Len(baseline.exposures)]
            ELSE SetItem(Deltas[i - 1], scenario.exposures[i].trade_id,
                         scenario.exposures[i].capital_charge
                         + (IF In(scenario.exposures[i].trade_id, Deltas[0])
                            THEN Item(Deltas[0],
                                      scenario.exposures[i].trade_id)
                            ELSE 0))
    IN [baseline |-> baseline,
        scenario |-> scenario,
        delta_total_charge |->
            scenario.total_capital_charge - baseline.total_capital_charge,
        exposure_deltas |-> Deltas[Len(scenario.exposures)]]

\* compare_scenarios with base_charge always 0.0
compare_scenarios_no_baseline(baseline, scenario) ==
    LET Deltas[i \in 0..Len(scenario.exposures)] ==
            IF i = 0 THEN <<>>
            ELSE SetItem(Deltas[i - 1], scenario.exposures[i].trade_id,
                         scenario.exposures[i].capital_charge)
    IN [baseline |-> baseline,
        scenario |-> scenario,
        delta_total_charge |->
            scenario.total_capital_charge - baseline.total_capital_charge,
        exposure_deltas |-> Deltas[Len(scenario.exposures)]]

\* compare_scenarios(baseline, scenario); exposure_deltas is a dict, a later
\* exposure with the trade id of an earlier one overwrites its entry
compare_scenarios(baseline, scenario) ==
    LET Map_[i \in 0..Len(baseline.exposures)] ==
            IF i = 0 THEN <<>>
            ELSE SetItem(Map_[i - 1], baseline.exposures[i].trade_id,
                         baseline.exposures[i].capital_charge)
        baseline_map == Map_[Len(baseline.exposures)]
        Deltas[i \in 0..Len(scenario.exposures)] ==
            IF i = 0 THEN <<>>
            ELSE SetItem(Deltas[i - 1], scenario.exposures[i].trade_id,
                         scenario.exposures[i].capital_charge
                         - (IF In(scenario.exposures[i].trade_id, baseline_map)
                            THEN Item(baseline_map,
                                      scenario.exposures[i].trade_id)
                            ELSE 0))
    IN [baseline |-> baseline,
        scenario |-> scenario,
        delta_total_charge |->
            scenario.total_capital_charge - baseline.total_capital_charge,
        exposure_deltas |-> Deltas[Len(scenario.exposures)]]

\* build_comparisons(baseline, scenarios)
build_comparisons(baseline, scenarios) ==
    [i \in DOMAIN scenarios |-> compare_scenarios(baseline, scenarios[i])]

\* iter_rows with the delta of a row taken from the row before it
iter_rows_from_previous(baseline, scenarios) ==
    << <<baseline.scenario_name, baseline.total_capital_charge, 0>> >>
    \o [i \in DOMAIN scenarios |->
           <<scenarios[i].scenario_name, scenarios[i].total_capital_charge,
             scenarios[i].total_capital_charge
             - (IF i = 1 THEN baseline.total_capital_charge
                ELSE scenarios[i - 1].total_capital_charge)>>]

\* ScenarioMatrix(baseline, scenarios).iter_rows()
iter_rows(baseline, scenarios) ==
    << <<baseline.scenario_name, baseline.total_capital_charge, 0>> >>
    \o [i \in DOMAIN scenarios |->
           <<scenarios[i].scenario_name, scenarios[i].total_capital_charge,
             scenarios[i].total_capital_charge
             - baseline.total_capital_charge>>]

InitScenario ==
    /\ store \in {[dir |-> K("BCBS_MAR"), files |-> ValidFiles],
                  [dir |-> NoDir,
                   files |-> [t \in DOMAIN ValidFiles |-> "absent"]]}
    /\ pc = "idle"
    /\ call = NoCall
    /\ load_data = <<>>
    /\ load_hashes = <<>>
    /\ loaded = NoneV
    /\ edits = 0
    /\ request = NoneV
    /\ response = NoneV
    /\ routes = <<>>
    /\ _storage = <<>>
    /\ threads = <<>>
    /\ log = <<>>

\* a caller calls compute(req)
CallComputeRequest ==
    /\ pc = "idle"
    /\ \E req \in ScenarioRequests :
           /\ request' = req
           /\ response' = compute(store, req)
           /\ call' = [op |-> "compute", policy_name |-> req.policy]
    /\ pc' = "done"
    /\ UNCHANGED <<routes, _storage, threads, log>>
    /\ UNCHANGED <<store, load_data, load_hashes, loaded, edits>>

\* the caller compares the scenarios of the result with its baseline and
\* lists the rows of the matrix of the result
Compare ==
    /\ pc = "done"
    /\ call.op = "compute"
    /\ response.ok
    /\ request' = response.value
    /\ response' =
           [comparisons |-> build_comparisons(response.value.baseline,
                                              response.value.scenarios),
            rows |-> iter_rows(response.value.baseline,
                               response.value.scenarios)]
    /\ call' = [op |-> "compare", policy_name |-> call.policy_name]
    /\ UNCHANGED <<routes, _storage, threads, log>>
    /\ UNCHANGED <<store, pc, load_data, load_hashes, loaded, edits>>

NextScenario ==
    \/ CallComputeRequest
    \/ Compare

SpecScenario == InitScenario /\ [][NextScenario]_vars

----------------------------------------------------------------------------
(* Claims on the scenarios of a request, under SpecScenario *)

RECURSIVE Total(_, _)
\* values[1] + ... + values[n]
Total(values, n) == IF n = 0 THEN 0 ELSE Total(values, n - 1) + values[n]

\* the result is the one of the scenario: its name, one computation for each
\* exposure in the order of the exposures, the count and the two sums
ResultOf(scenario, result) ==
    /\ result.scenario_name = scenario.name
    /\ Len(result.exposures) = Len(scenario.exposures)
    /\ \A i \in DOMAIN scenario.exposures :
           /\ result.exposures[i].trade_id = scenario.exposures[i].trade_id
           /\ result.exposures[i].notional = scenario.exposures[i].notional
    /\ result.exposure_count = Len(scenario.exposures)
    /\ result.total_capital_charge =
           Total([i \in DOMAIN result.exposures |->
                     result.exposures[i].capital_charge],
                 Len(result.exposures))
    /\ result.total_notional =
           Total([i \in DOMAIN scenario.exposures |->
                     scenario.exposures[i].notional],
                 Len(scenario.exposures))

\* C14: the result of every computed scenario holds one ExposureComputation
\* for each exposure of the scenario, in the order of the exposures (the
\* same trade ids in sequence); exposure_count is the number of exposures,
\* total_capital_charge the sum of the capital charges, total_notional the
\* sum of the notionals; and the result of the request holds one scenario
\* result for each alternative scenario, in the order of the request
C14_ScenarioResultShape ==
    (Done("compute") /\ response.ok) =>
        /\ ResultOf(request.baseline, response.value.baseline)
        /\ Len(response.value.scenarios) = Len(request.scenarios)
        /\ \A i \in DOMAIN request.scenarios :
               ResultOf(request.scenarios[i], response.value.scenarios[i])

\* compute returned the results of a baseline of two exposures with
\* different charges and of two alternatives with different exposures
C14_Witness ==
    /\ Done("compute")
    /\ response.ok
    /\ request.baseline.exposures =
           <<IgExposure(K("t2")), SeniorExposure(K("t1"))>>
    /\ Len(request.scenarios) = 2
    /\ request.scenarios[1].exposures = <<SeniorExposure(K("t2"))>>
    /\ request.scenarios[2].exposures =
           <<IgExposure(K("t2")), SeniorExposure(K("t1"))>>
    /\ response.value.baseline.exposures[1].capital_charge = 14
    /\ response.value.baseline.exposures[2].capital_charge = 12
    /\ response.value.baseline.total_capital_charge = 26

\* the policy that load returns on the store of the valid tables
CataloguePolicy ==
    load([dir |-> K("BCBS_MAR"), files |-> ValidFiles], K("BCBS_MAR")).value

\* the scenarios of the request, the baseline first
AllScenarios(req) == <<req.baseline>> \o req.scenarios

\* classification, then the risk weight of the path: what the resolution of
\* the exposure comes to
Resolution(policy, exposure) ==
    Try(_resolve_classification(policy, exposure),
        LAMBDA path : _risk_weight_from_policy(policy, path))

\* the errors of the exposures of the request whose classification or risk
\* weight does not resolve
ResolutionErrors(policy, req) ==
    {outcome \in
        UNION {{Resolution(policy, AllScenarios(req)[s].exposures[i]) :
                   i \in DOMAIN AllScenarios(req)[s].exposures} :
               s \in DOMAIN AllScenarios(req)} : ~outcome.ok}

\* C15: when the scenarios of a request are valid and the policy loads, and
\* the classification or the risk weight of one exposure, of the baseline
\* or of an alternative, does not resolve, compute raises that error and
\* returns no result: no exposure is skipped or given a default, and what
\* was computed before is not returned
C15_AllOrNothing ==
    (/\ Done("compute")
     /\ is_dir(store, request.policy)
     /\ validate_scenarios(AllScenarios(request)).ok)
    => LET errors == ResolutionErrors(CataloguePolicy, request)
       IN errors # {} =>
              /\ ~response.ok
              /\ response.error = "RiskWeightResolutionError"
              /\ response \in errors

\* compute failed on the last exposure of the second alternative, after the
\* baseline and the first alternative resolved
C15_Witness ==
    /\ Done("compute")
    /\ is_dir(store, request.policy)
    /\ request.baseline.exposures = <<SeniorExposure(K("t1"))>>
    /\ Len(request.scenarios) = 2
    /\ request.scenarios[1].exposures = <<SeniorExposure(K("t2"))>>
    /\ request.scenarios[2].exposures =
           <<IgExposure(K("t1")), UnknownClassExposure(K("t2"))>>
    /\ ~response.ok
    /\ response.error = "RiskWeightResolutionError"

\* the scenario has no exposure, or an exposure with a notional <= 0 or with
\* an empty currency, or two exposures with one trade id
IllFormed(scenario) ==
    \/ scenario.exposures = <<>>
    \/ \E i \in DOMAIN scenario.exposures :
           \/ scenario.exposures[i].notional <= 0
           \/ scenario.exposures[i].currency = <<>>
           \/ \E j \in DOMAIN scenario.exposures :
                  /\ j # i
                  /\ scenario.exposures[j].trade_id =
                         scenario.exposures[i].trade_id

\* C16: compute validates the baseline and every alternative before the
\* policy is loaded and before any exposure is computed: when a scenario of
\* the request has no exposure, an exposure with notional <= 0 or with an
\* empty currency, or two exposures with one trade id, compute raises
\* ScenarioValidationError, whatever the store holds and whether the
\* exposures resolve or not; otherwise it raises no ScenarioValidationError,
\* also when two scenarios of the request share a trade id
C16_ValidatedFirst ==
    Done("compute") =>
        IF \E s \in DOMAIN AllScenarios(request) :
               IllFormed(AllScenarios(request)[s])
        THEN ~response.ok /\ response.error = "ScenarioValidationError"
        ELSE response.ok \/ response.error # "ScenarioValidationError"

\* compute raised ScenarioValidationError for two exposures with one trade
\* id in the first alternative, on a store that has no policy directory and
\* with a baseline whose exposure does not resolve
C16_Witness ==
    /\ Done("compute")
    /\ store.dir = NoDir
    /\ request.baseline.exposures = <<UnknownClassExposure(K("t2"))>>
    /\ Len(request.scenarios) = 1
    /\ request.scenarios[1].exposures =
           <<SeniorExposure(K("t1")), IgExposure(K("t1"))>>
    /\ ~response.ok
    /\ response.error = "ScenarioValidationError"

----------------------------------------------------------------------------
(* Claims on the comparison of the results, under SpecScenario *)

\* the trade ids of the exposures of a scenario result
TradeIds(result) ==
    {result.exposures[i].trade_id : i \in DOMAIN result.exposures}

\* the capital charge of the trade in the result (trade ids are unique in
\* the result of a validated scenario)
ChargeOf(result, trade_id) ==
    result.exposures[CHOOSE i \in DOMAIN result.exposures :
                         result.exposures[i].trade_id = trade_id]
        .capital_charge

\* C17: the keys of exposure_deltas are the trade ids of the scenario
\* result; the delta of a trade id of both results is the scenario charge
\* minus the baseline charge; the delta of a trade id of the scenario only
\* is the scenario charge; a trade id of the baseline only has no entry
C17_DeltasFollowScenario ==
    Done("compare") =>
        \A c \in DOMAIN response.comparisons :
            LET deltas == response.comparisons[c].exposure_deltas
                baseline == request.baseline
                scenario == request.scenarios[c]
            IN /\ Keys(deltas) = TradeIds(scenario)
               /\ \A id \in TradeIds(scenario) :
                      Item(deltas, id) =
                          IF id \in TradeIds(baseline)
                          THEN ChargeOf(scenario, id) - ChargeOf(baseline, id)
                          ELSE ChargeOf(scenario, id)
               /\ \A id \in TradeIds(baseline) \ TradeIds(scenario) :
                      ~In(id, deltas)

\* a baseline of t1 (charge 14) was compared with a scenario of t2 and t1
\* (charges 14 and 12) and with a scenario of t2 alone (charge 12)
C17_Witness ==
    /\ Done("compare")
    /\ Len(request.baseline.exposures) = 1
    /\ request.baseline.exposures[1].trade_id = K("t1")
    /\ request.baseline.exposures[1].capital_charge = 14
    /\ Len(response.comparisons) = 2
    /\ response.comparisons[1].exposure_deltas =
           << <<K("t2"), 14>>, <<K("t1"), 0 - 2>> >>
    /\ response.comparisons[2].exposure_deltas = << <<K("t2"), 12>> >>

\* the sum of the values of the dict
SumOfValues(d) == Total([i \in DOMAIN d |-> d[i][2]], Len(d))

\* the sum of the capital charges of the trades of the baseline that the
\* scenario does not have
BaselineOnlyCharge(baseline, scenario) ==
    Total([i \in DOMAIN baseline.exposures |->
              IF baseline.exposures[i].trade_id \in TradeIds(scenario)
              THEN 0
              ELSE baseline.exposures[i].capital_charge],
          Len(baseline.exposures))

\* C18 (as stated): delta_total_charge is the sum of the values of
\* exposure_deltas plus the sum of the capital charges of the trades that
\* only the baseline has
C18_DeltaPlusBaselineOnly ==
    Done("compare") =>
        \A c \in DOMAIN response.comparisons :
            response.comparisons[c].delta_total_charge =
                SumOfValues(response.comparisons[c].exposure_deltas)
                + BaselineOnlyCharge(request.baseline, request.scenarios[c])

\* C18 (amended): delta_total_charge is the sum of the values of
\* exposure_deltas minus the sum of the capital charges of the trades that
\* only the baseline has
C18_DeltaMinusBaselineOnly ==
    Done("compare") =>
        \A c \in DOMAIN response.comparisons :
            response.comparisons[c].delta_total_charge =
                SumOfValues(response.comparisons[c].exposure_deltas)
                - BaselineOnlyCharge(request.baseline, request.scenarios[c])

\* a baseline of t1 and t2 (charges 12 and 14) was compared with a scenario
\* of t1 alone (charge 14): the delta of the totals is -12, the only
\* exposure delta is 2, and the baseline alone has t2
C18_Witness ==
    /\ Done("compare")
    /\ Len(request.baseline.exposures) = 2
    /\ request.baseline.exposures[1].trade_id = K("t1")
    /\ request.baseline.exposures[1].capital_charge = 12
    /\ request.baseline.exposures[2].capital_charge = 14
    /\ Len(response.comparisons) >= 1
    /\ response.comparisons[1].exposure_deltas = << <<K("t1"), 2>> >>
    /\ response.comparisons[1].delta_total_charge = 0 - 12

\* C19: delta_total_charge is the total capital charge of the scenario
\* minus the one of the baseline, and iter_rows yields the row of the
\* baseline (its name, its total, 0) and then, in the order of the
\* alternatives, the row of each (its name, its total, its total minus the
\* total of the baseline, the delta_total_charge of its comparison)
C19_RowsAgreeWithDeltas ==
    Done("compare") =>
        /\ Len(response.comparisons) = Len(request.scenarios)
        /\ Len(response.rows) = Len(request.scenarios) + 1
        /\ response.rows[1] = <<request.baseline.scenario_name,
                                request.baseline.total_capital_charge, 0>>
        /\ \A c \in DOMAIN request.scenarios :
               /\ response.comparisons[c].delta_total_charge =
                      request.scenarios[c].total_capital_charge
                      - request.baseline.total_capital_charge
               /\ response.rows[c + 1] =
                      <<request.scenarios[c].scenario_name,
                        request.scenarios[c].total_capital_charge,
                        response.comparisons[c].delta_total_charge>>

\* the rows of a baseline of total 14 and of alternatives of totals 12 and
\* 26 were listed
C19_Witness ==
    /\ Done("compare")
    /\ response.rows = << <<K("base"), 14, 0>>,
                          <<AlternativeName(1), 12, 0 - 2>>,
                          <<AlternativeName(2), 26, 12>> >>

----------------------------------------------------------------------------
(* SpecApi: routes are registered on an APIApplication, then a request is *)
(* handled; paths and templates are strings of symbols, "/" "{" "}" being  *)
(* symbols of their own                                                    *)

RECURSIVE lstrip_chars(_, _)
\* s.lstrip(ch) for a one-symbol ch
lstrip_chars(s, ch) ==
    IF s # <<>> /\ s[1] = ch THEN lstrip_chars(Tail(s), ch) ELSE s

RECURSIVE rstrip_chars(_, _)
\* s.rstrip(ch) for a one-symbol ch
rstrip_chars(s, ch) ==
    IF s # <<>> /\ s[Len(s)] = ch
    THEN rstrip_chars(SubSeq(s, 1, Len(s) - 1), ch)
    ELSE s

\* s.strip(ch) for a one-symbol ch
strip_chars(s, ch) == lstrip_chars(rstrip_chars(s, ch), ch)

\* ch in s
contains(s, ch) == \E i \in DOMAIN s : s[i] = ch

\* HTTPException(status_code, detail), raised
HTTPException(status_code, detail) ==
    [ok |-> FALSE, error |-> "HTTPException", status_code |-> status_code,
     detail |-> detail, message |-> [text |-> detail, args |-> <<>>]]

\* Response(status_code, body)
Response(status_code, body) ==
    [t |-> "Response", status_code |-> status_code, body |-> body]

HTTP_200_OK == 200
HTTP_201_CREATED == 201
HTTP_204_NO_CONTENT == 204
HTTP_400_BAD_REQUEST == 400
HTTP_404_NOT_FOUND == 404

\* _Route(method, path_template, handler, status_code)
_Route(method, path_template, handler, status_code) ==
    [method |-> method, path_template |-> path_template,
     handler |-> handler, status_code |-> status_code]

\* APIRouter(prefix)
APIRouter(prefix) == [prefix |-> rstrip_chars(prefix, "/"), _routes |-> <<>>]

\* router._register(method, path, handler, status_code): the router after it
_register(router, method, path, handler, status_code) ==
    [router EXCEPT !._routes =
        Append(@, _Route(method,
                         IF router.prefix \o path # <<>>
                         THEN router.prefix \o path ELSE <<"/">>,
                         handler, status_code))]

\* a part of a path or of a template that is not empty
NonEmptyPart(part) == part # <<>>

\* APIApplication._match_path(template, path): None or the dict of the
\* parameters
_match_path(template, path) ==
    LET Match(template_parts, path_parts) ==
            LET Params[i \in 0..Len(template_parts)] ==
                    IF i = 0 THEN Map(<<>>)
                    ELSE IF Params[i - 1] = NoneV THEN NoneV
                    ELSE IF startswith(template_parts[i], <<"{">>)
                            /\ endswith(template_parts[i], <<"}">>)
                    THEN Map(SetItem(Params[i - 1].m,
                                     SubSeq(template_parts[i], 2,
                                            Len(template_parts[i]) - 1),
                                     Str(path_parts[i])))
                    ELSE IF template_parts[i] # path_parts[i] THEN NoneV
                    ELSE Params[i - 1]
            IN IF template_parts # path_parts /\ ~contains(template, "{")
               THEN IF template_parts # <<>> \/ path_parts # <<>>
                    THEN NoneV
                    ELSE Map(<<>>)
               ELSE IF Len(template_parts) # Len(path_parts) THEN NoneV
               ELSE Params[Len(template_parts)]
    IN Match(Filter(split(strip_chars(template, "/"), "/"), NonEmptyPart),
             Filter(split(strip_chars(path, "/"), "/"), NonEmptyPart))

\* param.empty: the parameter has no default
NoDefault == [t |-> "empty"]

\* the handlers of the model: name, parameters of the signature, and what
\* the body does with its arguments
PingHandler ==
    [name |-> "ping", parameters |-> <<>>, does |-> "pong"]
ItemHandler ==
    [name |-> "item",
     parameters |-> << [name |-> K("id"), default |-> NoDefault],
                       [name |-> K("flag"), default |-> Bool_(FALSE)] >>,
     does |-> "echo"]
CreatedHandler ==
    [name |-> "created", parameters |-> <<>>, does |-> "response"]
BoomHandler ==
    [name |-> "boom",
     parameters |-> << [name |-> K("payload"), default |-> NoDefault] >>,
     does |-> "raise"]
FlaggedHandler ==
    [name |-> "flagged",
     parameters |-> << [name |-> K("flag"), default |-> NoDefault] >>,
     does |-> "echo"]

\* handler(**kwargs)
Handler(handler, kwargs) ==
    CASE handler.does = "pong" ->
             Return(Map(<< <<K("message"), S("pong")>> >>))
      [] handler.does = "echo" -> Return(Map(kwargs))
      [] handler.does = "response" ->
             Return(Response(HTTP_204_NO_CONTENT, NoneV))
      [] handler.does = "raise" ->
             HTTPException(HTTP_400_BAD_REQUEST, S("boom"))

\* APIApplication._invoke(handler, params, payload, query)
_invoke(handler, params, payload, query) ==
    LET Kwargs[i \in 0..Len(handler.parameters)] ==
            IF i = 0 THEN Return(<<>>)
            ELSE IF ~Kwargs[i - 1].ok THEN Kwargs[i - 1]
            ELSE IF In(handler.parameters[i].name, params)
            THEN Return(SetItem(Kwargs[i - 1].value,
                                handler.parameters[i].name,
                                Item(params, handler.parameters[i].name)))
            ELSE IF In(handler.parameters[i].name, query)
            THEN Return(SetItem(
                     Kwargs[i - 1].value, handler.parameters[i].name,
                     LET value == Item(query, handler.parameters[i].name)
                     IN IF IsStr(value)
                           /\ lower(value.s) \in {K("true"), K("false")}
                        THEN Bool_(lower(value.s) = K("true"))
                        ELSE value))
            ELSE IF handler.parameters[i].name = K("payload")
            THEN Return(SetItem(Kwargs[i - 1].value,
                                handler.parameters[i].name, payload))
            ELSE IF handler.parameters[i].default # NoDefault
            THEN Return(SetItem(Kwargs[i - 1].value,
                                handler.parameters[i].name,
                                handler.parameters[i].default))
            ELSE Raise("TypeError",
                       "Cannot populate parameter '{name}' for handler {handler}",
                       <<handler.parameters[i].name, handler.name>>)
        Invoke(kwargs) ==
            IF kwargs.ok THEN Handler(handler, kwargs.value) ELSE kwargs
    IN Invoke(Kwargs[Len(handler.parameters)])

\* the detail of the response to a request no route matches
NoRoute(method, path) ==
    [t |-> "str", text |-> "No route for {method} {path}",
     args |-> <<method, path>>]

\* handle_request that takes the first route whose template matches,
\* whatever its method
handle_request_any_method(app_routes, method, path, payload, query) ==
    LET Served(route, result) ==
            IF result.ok
            THEN IF result.value.t = "Response"
                 THEN Return(result.value)
                 ELSE Return(Response(route.status_code, result.value))
            ELSE IF result.error = "HTTPException"
            THEN Return(Response(result.status_code,
                                 Map(<< <<K("detail"), result.detail>> >>)))
            ELSE result
        From[i \in 1..(Len(app_routes) + 1)] ==
            IF i > Len(app_routes)
            THEN Return(Response(
                     HTTP_404_NOT_FOUND,
                     Map(<< <<K("detail"), NoRoute(method, path)>> >>)))
            ELSE IF _match_path(app_routes[i].path_template, path) = NoneV
            THEN From[i + 1]
            ELSE Served(app_routes[i],
                        _invoke(app_routes[i].handler,
                                _match_path(app_routes[i].path_template,
                                            path).m,
                                payload, query))
    IN From[1]

\* APIApplication.handle_request(method, path, payload=payload, query=query)
\* on the routes of the application
handle_request(app_routes, method, path, payload, query) ==
    LET Served(route, result) ==
            IF result.ok
            THEN IF result.value.t = "Response"
                 THEN Return(result.value)
                 ELSE Return(Response(route.status_code, result.value))
            ELSE IF result.error = "HTTPException"
            THEN Return(Response(result.status_code,
                                 Map(<< <<K("detail"), result.detail>> >>)))
            ELSE result
        From[i \in 1..(Len(app_routes) + 1)] ==
            IF i > Len(app_routes)
            THEN Return(Response(
                     HTTP_404_NOT_FOUND,
                     Map(<< <<K("detail"), NoRoute(method, path)>> >>)))
            ELSE IF app_routes[i].method # method THEN From[i + 1]
            ELSE IF _match_path(app_routes[i].path_template, path) = NoneV
            THEN From[i + 1]
            ELSE Served(app_routes[i],
                        _invoke(app_routes[i].handler,
                                _match_path(app_routes[i].path_template,
                                            path).m,
                                payload, query))
    IN From[1]

\* the most routes an application gets
MaxRoutes == 3

\* the registrations made with @app.get(path, status_code=...)
AppRegistrations ==
    { [path |-> <<>>, handler |-> PingHandler, status_code |-> HTTP_200_OK],
      [path |-> <<"/", "items", "/", "{", "id", "}">>,
       handler |-> ItemHandler, status_code |-> HTTP_200_OK],
      [path |-> <<"/", "items", "/", "new">>,
       handler |-> CreatedHandler, status_code |-> HTTP_200_OK],
      [path |-> <<"/", "flag">>,
       handler |-> FlaggedHandler, status_code |-> HTTP_201_CREATED] }

\* router = APIRouter(prefix="/ping/") with a GET and a POST on ""
PingRouter ==
    _register(_register(APIRouter(<<"/", "ping", "/">>),
                        "GET", <<>>, PingHandler, HTTP_200_OK),
              "POST", <<>>, BoomHandler, HTTP_201_CREATED)

\* router = APIRouter() with a POST on a template with a parameter and a
\* GET on a template whose brace is not closed
ItemRouter ==
    _register(_register(APIRouter(<<>>),
                        "POST", <<"/", "items", "/", "{", "id", "}">>,
                        ItemHandler, HTTP_201_CREATED),
              "GET", <<"/", "items", "/", "{", "id">>,
              PingHandler, HTTP_200_OK)

Routers == {PingRouter, ItemRouter}

RequestMethods == {"GET", "POST"}

RequestPaths ==
    { <<"/">>,
      <<"/", "ping">>,
      <<"ping", "/">>,
      <<"/", "items", "/", "new">>,
      <<"/", "items", "/", "/", "7">>,
      <<"/", "items", "/", "{", "id">>,
      <<"/", "items">>,
      <<"/", "flag">> }

RequestQueries == { <<>>, << <<K("flag"), S("True")>> >> }

InitApi ==
    /\ store = [dir |-> NoDir, files |-> [t \in DOMAIN ValidFiles |-> "absent"]]
    /\ pc = "idle"
    /\ call = NoCall
    /\ load_data = <<>>
    /\ load_hashes = <<>>
    /\ loaded = NoneV
    /\ edits = 0
    /\ request = NoneV
    /\ response = NoneV
    /\ routes = <<>>
    /\ _storage = <<>>
    /\ threads = <<>>
    /\ log = <<>>

\* @app.get(path, status_code=status_code) on a handler
AppGet(path, handler, status_code) ==
    /\ pc = "idle"
    /\ Len(routes) < MaxRoutes
    /\ routes' = Append(routes,
                        _Route("GET", IF path # <<>> THEN path ELSE <<"/">>,
                               handler, status_code))
    /\ UNCHANGED <<store, pc, call, load_data, load_hashes, loaded, edits,
                   request, response>>
    /\ UNCHANGED <<_storage, threads, log>>

\* app.include_router(router)
IncludeRouter(router) ==
    /\ pc = "idle"
    /\ Len(routes) + Len(router._routes) <= MaxRoutes
    /\ routes' = routes \o router._routes
    /\ UNCHANGED <<store, pc, call, load_data, load_hashes, loaded, edits,
                   request, response>>
    /\ UNCHANGED <<_storage, threads, log>>

\* app.handle_request(method, path, query=query)
HandleRequest(method, path, query) ==
    /\ pc = "idle"
    /\ call' = [op |-> "handle_request", policy_name |-> <<>>]
    /\ request' = [method |-> method, path |-> path, query |-> query]
    /\ response' = handle_request(routes, method, path, NoneV, query)
    /\ pc' = "done"
    /\ UNCHANGED <<store, load_data, load_hashes, loaded, edits, routes>>
    /\ UNCHANGED <<_storage, threads, log>>

NextApi ==
    \/ \E r \in AppRegistrations : AppGet(r.path, r.handler, r.status_code)
    \/ \E router \in Routers : IncludeRouter(router)
    \/ \E method \in RequestMethods, path \in RequestPaths, query \in RequestQueries :
           HandleRequest(method, path, query)

SpecApi == InitApi /\ [][NextApi]_vars

----------------------------------------------------------------------------
(* Claim on the dispatch of a request, under SpecApi *)

\* the segments of a path: its maximal runs of symbols other than "/"
Segments(s) ==
    LET starts == {i \in DOMAIN s :
                       s[i] # "/" /\ (i = 1 \/ s[i - 1] = "/")}
        Start(k) == CHOOSE i \in starts :
                        Cardinality({j \in starts : j < i}) = k - 1
        End(i) == CHOOSE j \in i..Len(s) :
                      /\ \A k \in i..j : s[k] # "/"
                      /\ j = Len(s) \/ s[j + 1] = "/"
    IN [k \in 1..Cardinality(starts) |-> SubSeq(s, Start(k), End(Start(k)))]

\* a segment of a template that captures: {name}
IsCapture(part) ==
    Len(part) >= 2 /\ part[1] = "{" /\ part[Len(part)] = "}"

\* the template matches the path segment by segment
TemplateMatches(template, path) ==
    /\ Len(Segments(template)) = Len(Segments(path))
    /\ \A i \in DOMAIN Segments(template) :
           \/ IsCapture(Segments(template)[i])
           \/ Segments(template)[i] = Segments(path)[i]

\* the values the {name} segments of the template capture from the path
\* (no template of the model has a name twice)
Captured(template, path) ==
    LET capturing == {i \in DOMAIN Segments(template) :
                          IsCapture(Segments(template)[i])}
        Nth(k) == CHOOSE i \in capturing :
                      Cardinality({j \in capturing : j < i}) = k - 1
    IN [k \in 1..Cardinality(capturing) |->
           <<SubSeq(Segments(template)[Nth(k)], 2,
                    Len(Segments(template)[Nth(k)]) - 1),
             Str(Segments(path)[Nth(k)])>>]

\* the routes of the application that accept the request
Accepting ==
    {i \in DOMAIN routes :
         /\ routes[i].method = request.method
         /\ TemplateMatches(routes[i].path_template, request.path)}

\* what the handler of the route does on the request
HandlerOutcome(route) ==
    _invoke(route.handler, Captured(route.path_template, request.path),
            NoneV, request.query)

\* C20: handle_request dispatches to the first registered route whose
\* method is the request's and whose template matches the path segment by
\* segment, with the {name} segments captured; the Response of the handler
\* is returned as it is, another result is wrapped with the status code of
\* the route, an HTTPException becomes a Response of its status code with
\* body {'detail': detail}; when no route matches the Response is a 404
\* whose detail names the method and the path
C20_Dispatch ==
    Done("handle_request") =>
        IF Accepting = {}
        THEN /\ response.ok
             /\ response.value.t = "Response"
             /\ response.value.status_code = 404
             /\ Keys(response.value.body.m) = {K("detail")}
             /\ Item(response.value.body.m, K("detail")).args =
                    <<request.method, request.path>>
        ELSE LET route == routes[Min(Accepting)]
                 Expected(result) ==
                     IF result.ok
                     THEN IF result.value.t = "Response"
                          THEN response = Return(result.value)
                          ELSE response =
                                   Return(Response(route.status_code,
                                                   result.value))
                     ELSE result.error = "HTTPException" =>
                              response =
                                  Return(Response(
                                      result.status_code,
                                      Map(<< <<K("detail"),
                                               result.detail>> >>)))
             IN Expected(HandlerOutcome(route))

\* GET /items/new was handled by an application whose first route is
\* GET /items/{id} and whose second is GET /items/new: the handler of the
\* first got id = "new" and its result was wrapped with 200
C20_Witness ==
    /\ Done("handle_request")
    /\ Cardinality(Accepting) >= 2
    /\ request.path = <<"/", "items", "/", "new">>
    /\ routes[1].handler = ItemHandler
    /\ response = Return(Response(200,
                     Map(<< <<K("id"), S("new")>>,
                            <<K("flag"), Bool_(FALSE)>> >>)))

----------------------------------------------------------------------------
(* Claims on the classification path and the risk-weight traversal, under *)
(* SpecEngine                                                             *)

\* C22: a classification that succeeds is the effective exposure class
\* followed, in order, by the non-empty segments of the effective quality
\* step split on '/': it starts with the class, holds no empty segment, and
\* is the class alone when the quality step is made of '/' only
C22_PathOfNonEmptySegments ==
    (Done("_resolve_classification") /\ response.ok) =>
        /\ Len(response.value) >= 1
        /\ response.value[1] = EffectiveClass(loaded.value, request).s
        /\ Tail(response.value) =
               Segments(EffectiveQuality(loaded.value, request).s)
        /\ \A i \in DOMAIN response.value : response.value[i] # <<>>

\* the quality step "/" gave the path of the class alone
C22_Witness ==
    /\ Done("_resolve_classification")
    /\ request.exposure_class = S("fin")
    /\ request.quality_step = Str(<<"/">>)
    /\ response = Return(<<K("fin")>>)

\* the value the first n segments of the path lead to, through mappings
\* only; the whole mapping of exposures when n = 0
Reached(policy, path, n) ==
    IF n = 0 THEN Map(PolicyExposures(policy))
    ELSE Follow(PolicyExposures(policy), SubSeq(path, 1, n), 1)

\* the first n segments lead to a numeric leaf and the segments that
\* follow, up to the m-th, repeat the n-th
LeafRepeated(policy, path, n, m) ==
    /\ IsNumber(Reached(policy, path, n))
    /\ \A j \in (n + 1)..m : path[j] = path[n]

\* the i-th segment is absent from the node the traversal is at: a mapping
\* that does not hold it, or a leaf met earlier under another segment
SegmentAbsent(policy, path, i) ==
    \/ /\ IsMapping(Reached(policy, path, i - 1))
       /\ ~In(path[i], Reached(policy, path, i - 1).m)
    \/ \E n \in 1..(i - 1) :
           /\ LeafRepeated(policy, path, n, i - 1)
           /\ path[i] # path[n]

\* C23: when a segment of the path is absent from the current node the
\* resolution raises RiskWeightResolutionError naming the whole path joined
\* with '/'; no number comes back
C23_AbsentSegmentRaises ==
    Done("_risk_weight_from_policy") =>
        ((\E i \in DOMAIN request : SegmentAbsent(loaded.value, request, i))
         => response = Raise("RiskWeightResolutionError",
                             "Classification path {path} not present in policy",
                             <<join("/", request)>>))

\* the third segment was absent from the mapping the first two lead to
C23_Witness ==
    /\ Done("_risk_weight_from_policy")
    /\ request = <<K("fin"), K("bank"), K("ig")>>
    /\ ~response.ok
    /\ response.error = "RiskWeightResolutionError"
    /\ response.message.args = << <<"fin", "/", "bank", "/", "ig">> >>

\* C24: a path that, followed whole, ends at a nested mapping and not at a
\* number fails with RiskWeightResolutionError
C24_MappingEndRaises ==
    Done("_risk_weight_from_policy") =>
        (IsMapping(Reached(loaded.value, request, Len(request)))
         => /\ ~response.ok
            /\ response.error = "RiskWeightResolutionError")

\* C25: when the traversal meets a numeric leaf at segment s and segments
\* remain, it succeeds exactly when every remaining segment is s, with the
\* value of the leaf; else it raises RiskWeightResolutionError for the
\* absent segment
C25_LeafWithSegmentsLeft ==
    Done("_risk_weight_from_policy") =>
        \A n \in 1..(Len(request) - 1) :
            IsNumber(Reached(loaded.value, request, n)) =>
                IF \A j \in (n + 1)..Len(request) : request[j] = request[n]
                THEN response =
                         Return(float(Reached(loaded.value, request, n)))
                ELSE response =
                         Raise("RiskWeightResolutionError",
                               "Classification path {path} not present in policy",
                               <<join("/", request)>>)

\* the leaf 2 at sov/ig was returned for the path sov/ig/ig
C25_Witness ==
    /\ Done("_risk_weight_from_policy")
    /\ request = <<K("sov"), K("ig"), K("ig")>>
    /\ Item(PolicyExposures(loaded.value), K("sov")).m = 
           << <<K("ig"), Int_(2)>>, <<<<"ig", "/", "x">>, Int_(8)>> >>
    /\ response = Return(2)

----------------------------------------------------------------------------
(* Claims on the resolution of the LGD, under SpecEngine *)

\* lgd_tables.lgd of the policy
PolicyLgdTable(policy) == Item(policy.lgd_tables, K("lgd")).m

\* what the exposure's own class maps to in lgd_tables.lgd
ClassNode(policy, exposure) ==
    IF Unset(exposure.exposure_class) THEN NoneV
    ELSE Get(PolicyLgdTable(policy), exposure.exposure_class.s)

\* the segments of the exposure's own quality step, as split gives them
OwnSegments(exposure) ==
    IF Unset(exposure.quality_step) THEN <<>>
    ELSE split(exposure.quality_step.s, "/")

RECURSIVE FirstNumber(_, _)
\* first match wins: an absent segment is skipped, a segment that maps to a
\* mapping is descended into, the first that maps to a number gives it
FirstNumber(mapping, segments) ==
    IF segments = <<>> THEN NoneV
    ELSE IF ~In(Head(segments), mapping)
    THEN FirstNumber(mapping, Tail(segments))
    ELSE IF IsNumber(Item(mapping, Head(segments)))
    THEN Float_(float(Item(mapping, Head(segments))))
    ELSE FirstNumber(Item(mapping, Head(segments)).m, Tail(segments))

\* lgd_grade is a direct key of the mapping of the class
DirectGrade(policy, exposure) ==
    /\ IsMapping(ClassNode(policy, exposure))
    /\ ~Unset(exposure.lgd_grade)
    /\ In(exposure.lgd_grade.s, ClassNode(policy, exposure).m)

\* the value the lookup under the class produces when lgd_grade is no
\* direct key
WalkValue(policy, exposure) ==
    IF IsMapping(ClassNode(policy, exposure))
    THEN FirstNumber(ClassNode(policy, exposure).m, OwnSegments(exposure))
    ELSE NoneV

\* lgd_tables.lgd[lgd_grade] when it is directly a number
TopLevelGrade(policy, exposure) ==
    IF ~Unset(exposure.lgd_grade)
       /\ In(exposure.lgd_grade.s, PolicyLgdTable(policy))
       /\ IsNumber(Item(PolicyLgdTable(policy), exposure.lgd_grade.s))
    THEN Float_(float(Item(PolicyLgdTable(policy), exposure.lgd_grade.s)))
    ELSE NoneV

\* C26: no LGD when the exposure has neither lgd_grade nor exposure_class;
\* else a direct lgd_grade key of the mapping of the exposure's own class
\* wins over the quality step walk; the top-level entry of lgd_grade is
\* returned only when the lookup under the class gave no value and the
\* entry is directly a number; in every remaining case there is no LGD
C26_LgdPrecedence ==
    Done("_resolve_lgd") =>
        LET policy == loaded.value
        IN IF Unset(request.lgd_grade) /\ Unset(request.exposure_class)
           THEN response = Return(NoneV)
           ELSE IF DirectGrade(policy, request)
           THEN LET direct == Item(ClassNode(policy, request).m,
                                   request.lgd_grade.s)
                IN IF IsNumber(direct)
                   THEN response = Return(Float_(float(direct)))
                   ELSE ~(response.ok /\ response.value # NoneV)
           ELSE IF WalkValue(policy, request) # NoneV
           THEN response = Return(WalkValue(policy, request))
           ELSE response = Return(TopLevelGrade(policy, request))

\* the grade secured is a direct key under fin and gave 3, the walk of
\* bank/senior would have given 4
C26_Witness ==
    /\ Done("_resolve_lgd")
    /\ request.exposure_class = S("fin")
    /\ request.lgd_grade = S("secured")
    /\ request.quality_step = Str(<<"bank", "/", "senior">>)
    /\ WalkValue(loaded.value, request) = Float_(4)
    /\ response = Return(Float_(3))

\* C27: in the walk of the quality step first match wins: the segments of
\* the exposure's own quality step are taken in order from the node of the
\* class, an absent segment is skipped, a segment that maps to a mapping is
\* descended into, and the first segment that maps to a number ends the
\* walk with that number, later segments left unvisited
C27_FirstMatchWins ==
    Done("_resolve_lgd") =>
        ((IsMapping(ClassNode(loaded.value, request))
          /\ ~DirectGrade(loaded.value, request)
          /\ WalkValue(loaded.value, request) # NoneV)
         => response = Return(WalkValue(loaded.value, request)))

\* under sov, which holds ig: 0 and senior: 9, the walk of ig/bank/senior
\* ended at its first segment with the number 0 and left senior unvisited;
\* the top-level entry of the grade unsecured was not consulted
C27_Witness ==
    /\ Done("_resolve_lgd")
    /\ request.exposure_class = S("sov")
    /\ In(K("senior"), ClassNode(loaded.value, request).m)
    /\ request.quality_step = Str(<<"ig", "/", "bank", "/", "senior">>)
    /\ request.lgd_grade = S("unsecured")
    /\ response = Return(Float_(0))

\* C29: _resolve_lgd returns a number or no LGD and never raises, so that
\* the computation of an exposure fails with the error kinds of the
\* classification and of the risk weight only
C29_LgdTotal ==
    /\ Done("_resolve_lgd") =>
           /\ response.ok
           /\ response.value = NoneV \/ response.value.t = "float"
    /\ (Done("_compute_exposure") /\ ~response.ok) =>
           response.error = "RiskWeightResolutionError"

----------------------------------------------------------------------------
(* SpecMemory and SpecMemoryConcurrent: calls on the InMemoryScenarioStore *)
(* the application shares. `_storage` is the entries of the dict in        *)
(* insertion order; a deleted entry leaves a hole, as in CPython, so that  *)
(* an iterator keeps its position. The dict is not resized as long as it   *)
(* got no more than five entries, which the bounds on the calls ensure.    *)

\* an entry of the dict, and the hole a deleted entry leaves
DictEntry(key, value) == [live |-> TRUE, key |-> key, value |-> value]
DictHole(key) == [live |-> FALSE, key |-> key, value |-> NoneV]

\* key in d
dict_contains(d, key) == \E i \in DOMAIN d : d[i].live /\ d[i].key = key

\* d.get(key)
dict_get(d, key) ==
    IF dict_contains(d, key)
    THEN d[CHOOSE i \in DOMAIN d : d[i].live /\ d[i].key = key].value
    ELSE NoneV

\* d[key] = value that leaves the value of a key the dict has already
dict_setitem_keep(d, key, value) ==
    IF dict_contains(d, key) THEN d
    ELSE Append(d, DictEntry(key, value))

\* d[key] = value
dict_setitem(d, key, value) ==
    IF dict_contains(d, key)
    THEN [i \in DOMAIN d |-> IF d[i].live /\ d[i].key = key
                             THEN DictEntry(key, value) ELSE d[i]]
    ELSE Append(d, DictEntry(key, value))

\* del d[key], the key being in d
dict_delitem(d, key) ==
    [i \in DOMAIN d |-> IF d[i].live /\ d[i].key = key
                        THEN DictHole(key) ELSE d[i]]

\* len(d)
dict_used(d) == Cardinality({i \in DOMAIN d : d[i].live})

\* a scenario as the store holds it
StoredScenario(name, description) ==
    [name |-> name, description |-> description, exposures |-> <<>>,
     created_at |-> 0, tags |-> <<>>]

\* ScenarioRegistryEntry of a scenario
ScenarioRegistryEntry(scenario) ==
    [name |-> scenario.name, description |-> scenario.description,
     created_at |-> scenario.created_at, tags |-> scenario.tags]

\* the most calls made on the store
MaxCalls == 4

\* a thread that is in no call; result is the outcome of its last call
IdleThread ==
    [pc |-> "idle", op |-> "none", arg |-> NoneV, used |-> 0, pos |-> 0,
     out |-> <<>>, result |-> NoneV]

StoreCall(op, arg) == [op |-> op, arg |-> arg]

\* the calls of the sequential runs
StoreCalls ==
    {StoreCall("save", StoredScenario(K("a"), d)) : d \in {S("d1"), S("d2")}}
    \cup {StoreCall("save", StoredScenario(K("b"), S("d1")))}
    \cup {StoreCall(op, name) : op \in {"get", "delete"},
                                name \in {K("a"), K("b")}}
    \cup {StoreCall("list", NoneV), StoreCall("clear", NoneV)}

\* the calls concurrent requests make on the scenario named a, and the
\* listing
ConcurrentCalls ==
    {c \in StoreCalls :
         \/ c.op = "list"
         \/ c.op = "save" /\ c.arg.name = K("a")
         \/ c.op \in {"get", "delete"} /\ c.arg = K("a")}

\* _SCENARIO_STORE = InMemoryScenarioStore(), used by one request at a time
InitMemory ==
    /\ store = [dir |-> NoDir, files |-> [t \in DOMAIN ValidFiles |-> "absent"]]
    /\ pc = "idle"
    /\ call = NoCall
    /\ load_data = <<>>
    /\ load_hashes = <<>>
    /\ loaded = NoneV
    /\ edits = 0
    /\ request = NoneV
    /\ response = NoneV
    /\ routes = <<>>
    /\ _storage = <<>>
    /\ threads = [t \in {1} |-> IdleThread]
    /\ log = <<>>

\* _SCENARIO_STORE = InMemoryScenarioStore(), used by the requests of two
\* threads
InitMemoryConcurrent ==
    /\ store = [dir |-> NoDir, files |-> [t \in DOMAIN ValidFiles |-> "absent"]]
    /\ pc = "idle"
    /\ call = NoCall
    /\ load_data = <<>>
    /\ load_hashes = <<>>
    /\ loaded = NoneV
    /\ edits = 0
    /\ request = NoneV
    /\ response = NoneV
    /\ routes = <<>>
    /\ _storage = <<>>
    /\ threads = [t \in {1, 2} |-> IdleThread]
    /\ log = <<>>

\* the thread returns from its call, or raises out of it
Returned(t, outcome) ==
    threads' = [threads EXCEPT ![t].pc = "idle", ![t].result = outcome]

\* a request of thread t calls a method of the store
CallMethod(t, c) ==
    /\ threads[t].pc = "idle"
    /\ Len(log) < MaxCalls
    /\ threads' = [threads EXCEPT
                      ![t] = [IdleThread EXCEPT !.pc = c.op, !.op = c.op,
                                                !.arg = c.arg]]
    /\ log' = Append(log, [thread |-> t, op |-> c.op, arg |-> c.arg])
    /\ UNCHANGED <<store, pc, call, load_data, load_hashes, loaded, edits,
                   request, response, routes, _storage>>

\* save: self._storage[scenario.name] = scenario
Save(t) ==
    /\ threads[t].pc = "save"
    /\ _storage' = dict_setitem(_storage, threads[t].arg.name, threads[t].arg)
    /\ Returned(t, Return(NoneV))
    /\ UNCHANGED <<store, pc, call, load_data, load_hashes, loaded, edits,
                   request, response, routes, log>>

\* get: return self._storage.get(name)
GetScenario(t) ==
    /\ threads[t].pc = "get"
    /\ Returned(t, Return(dict_get(_storage, threads[t].arg)))
    /\ UNCHANGED <<store, pc, call, load_data, load_hashes, loaded, edits,
                   request, response, routes, _storage, log>>

\* delete: if name in self._storage
DeleteCheck(t) ==
    /\ threads[t].pc = "delete"
    /\ IF dict_contains(_storage, threads[t].arg)
       THEN threads' = [threads EXCEPT ![t].pc = "del"]
       ELSE Returned(t, Return(NoneV))
    /\ UNCHANGED <<store, pc, call, load_data, load_hashes, loaded, edits,
                   request, response, routes, _storage, log>>

\* delete: del self._storage[name]; KeyError when the name is not there
DeleteDel(t) ==
    /\ threads[t].pc = "del"
    /\ IF dict_contains(_storage, threads[t].arg)
       THEN /\ _storage' = dict_delitem(_storage, threads[t].arg)
            /\ Returned(t, Return(NoneV))
       ELSE /\ _storage' = _storage
            /\ Returned(t, Raise("KeyError", "{name}", <<threads[t].arg>>))
    /\ UNCHANGED <<store, pc, call, load_data, load_hashes, loaded, edits,
                   request, response, routes, log>>

\* clear: self._storage.clear()
Clear(t) ==
    /\ threads[t].pc = "clear"
    /\ _storage' = <<>>
    /\ Returned(t, Return(NoneV))
    /\ UNCHANGED <<store, pc, call, load_data, load_hashes, loaded, edits,
                   request, response, routes, log>>

\* list: the iterator of self._storage.values() is made; it remembers the
\* size of the dict
ListIter(t) ==
    /\ threads[t].pc = "list"
    /\ threads' = [threads EXCEPT ![t].pc = "next",
                                  ![t].used = dict_used(_storage),
                                  ![t].pos = 0]
    /\ UNCHANGED <<store, pc, call, load_data, load_hashes, loaded, edits,
                   request, response, routes, _storage, log>>

\* list: one turn of the loop; the iterator raises RuntimeError when the
\* size of the dict is no longer the one it remembers, or when it finds an
\* entry after having given as many as the dict had; else it gives the
\* next entry after its position, and the caller has the whole list when
\* there is none
ListNext(t) ==
    /\ threads[t].pc = "next"
    /\ LET later == {i \in DOMAIN _storage :
                         i > threads[t].pos /\ _storage[i].live}
       IN IF dict_used(_storage) # threads[t].used
          THEN Returned(t, Raise("RuntimeError",
                                 "dictionary changed size during iteration",
                                 <<>>))
          ELSE IF later # {} /\ Len(threads[t].out) = threads[t].used
          THEN Returned(t, Raise("RuntimeError",
                                 "dictionary keys changed during iteration",
                                 <<>>))
          ELSE IF later # {}
          THEN threads' =
                   [threads EXCEPT
                       ![t].pos = Min(later),
                       ![t].out = Append(@, ScenarioRegistryEntry(
                                               _storage[Min(later)].value))]
          ELSE Returned(t, Return(threads[t].out))
    /\ UNCHANGED <<store, pc, call, load_data, load_hashes, loaded, edits,
                   request, response, routes, _storage, log>>


NextMemory ==
    \/ \E t \in DOMAIN threads, c \in StoreCalls : CallMethod(t, c)
    \/ \E t \in DOMAIN threads : Save(t)
    \/ \E t \in DOMAIN threads : GetScenario(t)
    \/ \E t \in DOMAIN threads : DeleteCheck(t)
    \/ \E t \in DOMAIN threads : DeleteDel(t)
    \/ \E t \in DOMAIN threads : Clear(t)
    \/ \E t \in DOMAIN threads : ListIter(t)
    \/ \E t \in DOMAIN threads : ListNext(t)

SpecMemory == InitMemory /\ [][NextMemory]_vars

NextMemoryConcurrent ==
    \/ \E t \in DOMAIN threads, c \in ConcurrentCalls : CallMethod(t, c)
    \/ \E t \in DOMAIN threads : Save(t)
    \/ \E t \in DOMAIN threads : GetScenario(t)
    \/ \E t \in DOMAIN threads : DeleteCheck(t)
    \/ \E t \in DOMAIN threads : DeleteDel(t)
    \/ \E t \in DOMAIN threads : ListIter(t)
    \/ \E t \in DOMAIN threads : ListNext(t)

SpecMemoryConcurrent == InitMemoryConcurrent /\ [][NextMemoryConcurrent]_vars

----------------------------------------------------------------------------
(* Claims on the scenario store *)

StoreNames == {K("a"), K("b")}

\* the scenario of the most recent save under the name among the first n
\* calls that no delete of the name and no clear followed, none otherwise
LastSaved(name, n) ==
    LET saves == {i \in 1..n :
                      /\ log[i].op = "save"
                      /\ log[i].arg.name = name
                      /\ \A j \in (i + 1)..n :
                             /\ log[j].op # "clear"
                             /\ ~(log[j].op = "delete" /\ log[j].arg = name)}
    IN IF saves = {} THEN NoneV
       ELSE log[CHOOSE i \in saves : \A j \in saves : j <= i].arg

\* no call is in progress
Quiescent == \A t \in DOMAIN threads : threads[t].pc = "idle"

\* C21: after any sequence of save, delete and clear, get(name) returns the
\* scenario of the most recent save under the name that no delete(name)
\* and no clear followed, and nothing otherwise; list() yields exactly one
\* summary per stored name; a save under an existing name replaces the
\* scenario; delete of an absent name raises nothing and changes nothing
C21_StoreFollowsCalls ==
    (Quiescent /\ log # <<>>) =>
        LET last == log[Len(log)]
            result == threads[1].result
            stored == {name \in StoreNames :
                           LastSaved(name, Len(log)) # NoneV}
        IN /\ result.ok
           /\ \A name \in StoreNames :
                  dict_get(_storage, name) = LastSaved(name, Len(log))
           /\ last.op = "get" =>
                  result.value = LastSaved(last.arg, Len(log))
           /\ last.op = "list" =>
                  /\ Len(result.value) = Cardinality(stored)
                  /\ \A name \in stored :
                         \E i \in DOMAIN result.value :
                             result.value[i] =
                                 ScenarioRegistryEntry(
                                     LastSaved(name, Len(log)))
           /\ (last.op = "delete"
               /\ LastSaved(last.arg, Len(log) - 1) = NoneV) =>
                  \A name \in StoreNames :
                      LastSaved(name, Len(log)) =
                          LastSaved(name, Len(log) - 1)

\* a was saved twice, the absent b was deleted, and get(a) returned the
\* scenario of the second save
C21_Witness ==
    /\ Quiescent
    /\ Len(log) = 4
    /\ log[1] = [thread |-> 1, op |-> "save",
                 arg |-> StoredScenario(K("a"), S("d1"))]
    /\ log[2] = [thread |-> 1, op |-> "save",
                 arg |-> StoredScenario(K("a"), S("d2"))]
    /\ log[3] = [thread |-> 1, op |-> "delete", arg |-> K("b")]
    /\ log[4] = [thread |-> 1, op |-> "get", arg |-> K("a")]
    /\ threads[1].result = Return(StoredScenario(K("a"), S("d2")))

\* the content of the dict: its keys with their values
Content(d) == {<<d[i].key, d[i].value>> : i \in {j \in DOMAIN d : d[j].live}}

\* the content after the calls made one after the other in the order p
SerialContent(calls, p) ==
    LET After[n \in 0..Len(calls)] ==
            IF n = 0 THEN {}
            ELSE IF calls[p[n]].op = "save"
            THEN {e \in After[n - 1] : e[1] # calls[p[n]].arg.name}
                 \cup {<<calls[p[n]].arg.name, calls[p[n]].arg>>}
            ELSE IF calls[p[n]].op = "delete"
            THEN {e \in After[n - 1] : e[1] # calls[p[n]].arg}
            ELSE IF calls[p[n]].op = "clear" THEN {}
            ELSE After[n - 1]
    IN After[Len(calls)]

\* the orders in which n calls can be made one after the other
Orders(n) ==
    {p \in [1..n -> 1..n] : \A i, j \in 1..n : p[i] = p[j] => i = j}

\* C30: whatever the interleaving of the save, delete, get and list calls
\* of concurrent requests on one scenario name, no call raises, and once
\* the calls are over the content of the store is the one some serial
\* order of the calls leaves
C30_ConcurrentSafe ==
    /\ \A t \in DOMAIN threads :
           threads[t].result = NoneV \/ threads[t].result.ok
    /\ Quiescent =>
           \E p \in Orders(Len(log)) :
               Content(_storage) = SerialContent(log, p)

----------------------------------------------------------------------------
(* SpecLoadConcurrent: two load calls of the same policy on one loader, each
   on a thread of its own with its own locals, while something outside the
   program edits the table files; log keeps the states the store went
   through *)

\* the second caller: its position in load and the locals of its call
IdleLoad == [pc |-> "idle", data |-> <<>>, hashes |-> <<>>, result |-> NoneV]

\* the policy directory as it is while its files are being written: the
\* file of the LGD tables is not there yet
PartialFiles == [ValidFiles EXCEPT ![K("lgd_tables")] = "absent"]

InitLoadConcurrent ==
    /\ store \in {[dir |-> K("BCBS_MAR"), files |-> ValidFiles],
                  [dir |-> K("BCBS_MAR"), files |-> PartialFiles]}
    /\ pc = "idle"
    /\ call = NoCall
    /\ load_data = <<>>
    /\ load_hashes = <<>>
    /\ loaded = NoneV
    /\ edits = 0
    /\ request = NoneV
    /\ response = NoneV
    /\ routes = <<>>
    /\ _storage = <<>>
    /\ threads = <<IdleLoad>>
    /\ log = <<store>>

\* something outside the program edits the store, at any moment of the loads
ExternalEdit ==
    /\ edits < MaxEdits
    /\ store' \in EditedStores(store)
    /\ edits' = edits + 1
    /\ log' = Append(log, store')
    /\ UNCHANGED <<pc, call, load_data, load_hashes, loaded, request,
                   response, routes, _storage, threads>>

\* the second caller calls load(policy_name): the directory check
ConcurrentLoadDir(policy_name) ==
    /\ threads[1].pc = "idle"
    /\ threads' =
           IF is_dir(store, policy_name)
           THEN [threads EXCEPT ![1].pc = "table"]
           ELSE [threads EXCEPT
                    ![1].pc = "done",
                    ![1].result = PolicyDataValidationError(
                        "Policy directory '{policy_name}' not found under {base_path}",
                        <<policy_name>>)]
    /\ UNCHANGED <<store, pc, call, load_data, load_hashes, loaded, edits,
                   request, response, routes, _storage, log>>

\* the load of the second caller: one turn of the loop over DATASETS
ConcurrentLoadTable(policy_name) ==
    /\ threads[1].pc = "table"
    /\ Len(threads[1].data) < Len(DATASETS)
    /\ LET table_name == DATASETS[Len(threads[1].data) + 1]
           Turn(step) ==
               IF step.ok
               THEN threads' =
                        [threads EXCEPT
                            ![1].data = SetItem(@, table_name,
                                                step.value.data),
                            ![1].hashes = SetItem(@, table_name,
                                                  step.value.hash)]
               ELSE threads' = [threads EXCEPT ![1].pc = "done",
                                               ![1].result = step]
       IN Turn(LoadTableStep(store, policy_name, table_name))
    /\ UNCHANGED <<store, pc, call, load_data, load_hashes, loaded, edits,
                   request, response, routes, _storage, log>>

\* the load of the second caller: the composite hash and the return
ConcurrentLoadReturn(policy_name) ==
    /\ threads[1].pc = "table"
    /\ Len(threads[1].data) = Len(DATASETS)
    /\ threads' =
           [threads EXCEPT
               ![1].pc = "done",
               ![1].result = Return(LoadResult(policy_name, threads[1].data,
                                               threads[1].hashes))]
    /\ UNCHANGED <<store, pc, call, load_data, load_hashes, loaded, edits,
                   request, response, routes, _storage, log>>

NextLoadConcurrent ==
    \/ CallLoad(K("BCBS_MAR"))
    \/ LoadDir
    \/ LoadTable
    \/ LoadReturn
    \/ ReturnLoad
    \/ ConcurrentLoadDir(K("BCBS_MAR"))
    \/ ConcurrentLoadTable(K("BCBS_MAR"))
    \/ ConcurrentLoadReturn(K("BCBS_MAR"))
    \/ ExternalEdit

SpecLoadConcurrent == InitLoadConcurrent /\ [][NextLoadConcurrent]_vars

\* the PolicyData is the one load gives on one of the states the store
\* went through
OfOneStoreState(outcome, policy_name) ==
    \E i \in DOMAIN log : outcome = load(log[i], policy_name)

\* C28: a PolicyData that load returns has the four tables and the five
\* hashes of contents that were in the store together at one moment, even
\* when edits of the table files interleave with the load; and two
\* concurrent loads of the policy on a store nobody edits both give what
\* a load alone gives
C28_LoadOfOneStoreState ==
    /\ (Done("load") /\ response.ok) =>
           OfOneStoreState(response, call.policy_name)
    /\ (threads[1].pc = "done" /\ threads[1].result.ok) =>
           OfOneStoreState(threads[1].result, K("BCBS_MAR"))
    /\ (edits = 0 /\ Done("load")) =>
           response = load(store, call.policy_name)
    /\ (edits = 0 /\ threads[1].pc = "done") =>
           threads[1].result = load(store, K("BCBS_MAR"))

====
